---- MODULE Spec2Model ----
(***************************************************************************)
(* SPI stack subsystem of brickd for the RED Brick (red_stack.c).          *)
(*                                                                         *)
(* Two threads are modelled: the SPI thread (discovery, then the 500us     *)
(* polling loop) and the brickd event thread (red_stack_dispatch_to_spi,   *)
(* red_stack_dispatch_from_spi, red_stack_exit).  Frames and packets are   *)
(* byte sequences; sequences are 1-based, so C index i is TLA+ index i+1.  *)
(***************************************************************************)
EXTENDS Integers, Sequences, FiniteSets, TLC

(***************************************************************************)
(* Program constants                                                       *)
(***************************************************************************)
RED_STACK_SPI_PACKET_SIZE == 84
RED_STACK_SPI_PACKET_EMPTY_SIZE == 4
RED_STACK_SPI_PREAMBLE_VALUE == 170
RED_STACK_SPI_INFO_BUSY == 1
RED_STACK_SPI_MAX_SLAVES == 8
RED_STACK_SPI_ROUTING_TRIES == 10

RED_STACK_TRANSCEIVE_DATA_SEND == 256
RED_STACK_TRANSCEIVE_DATA_RECEIVED == 128
RED_STACK_TRANSCEIVE_RESULT_SEND_ERROR == 1
RED_STACK_TRANSCEIVE_RESULT_SEND_BUSY == 2
RED_STACK_TRANSCEIVE_RESULT_SEND_NONE == 3
RED_STACK_TRANSCEIVE_RESULT_SEND_OK == 4
RED_STACK_TRANSCEIVE_RESULT_READ_ERROR == 8
RED_STACK_TRANSCEIVE_RESULT_READ_NONE == 16
RED_STACK_TRANSCEIVE_RESULT_READ_OK == 24

\* sizeof(Packet), sizeof(PacketHeader), PACKET_STACK_ENUMERATE_MAX_UIDS and
\* FUNCTION_STACK_ENUMERATE come from daemonlib/packet.h.
SizeofPacket == 80
SizeofPacketHeader == 8
PACKET_STACK_ENUMERATE_MAX_UIDS == 16
FUNCTION_STACK_ENUMERATE == 252

RED_STACK_SLAVE_STATUS_ABSENT == "ABSENT"
RED_STACK_SLAVE_STATUS_AVAILABLE == "AVAILABLE"
RED_STACK_SLAVE_STATUS_AVAILABLE_BUSY == "AVAILABLE_BUSY"

\* red_extension.c
EXTENSION_NUM_MAX == 2
EXTENSION_TYPE_NONE == 0
EXTENSION_TYPE_CHIBI == 1
EXTENSION_TYPE_RS485 == 2
EXTENSION_TYPE_WIFI == 3
EXTENSION_TYPE_ETHERNET == 4

(***************************************************************************)
(* Bounds of the model (environment, not program constants)                *)
(***************************************************************************)
\* number of slots that have a brick attached and can drive MISO
MaxPresent == 2
\* number of work items the event thread pushes in one run
MaxPush == 2
\* number of response packets the slaves deliver during polling
MaxRecv == 2

(***************************************************************************)
(* Byte arithmetic                                                         *)
(***************************************************************************)
\* bit k (k a power of two) of x
Bit(x, k) == (x \div k) % 2

Powers == << 1, 2, 4, 8, 16, 32, 64, 128, 256 >>

\* f is the truth table of the bit operation, indexed by the sum of the two bits
BitOp(a, b, f) ==
    LET t(i) == Powers[i] * f[Bit(a, Powers[i]) + Bit(b, Powers[i]) + 1]
    IN  t(1) + t(2) + t(3) + t(4) + t(5) + t(6) + t(7) + t(8) + t(9)

\* a ^ b, a & b, a | b on values below 512
BitXor(a, b) == BitOp(a, b, << 0, 1, 0 >>)
BitAnd(a, b) == BitOp(a, b, << 0, 0, 1 >>)
BitOr(a, b) == BitOp(a, b, << 0, 1, 1 >>)

Zeros(n) == [i \in 1..n |-> 0]

\* memcpy(dst + off, src, n): bytes off .. off+n-1 (C indices) of dst replaced
Memcpy(dst, off, src, n) ==
    [i \in 1..Len(dst) |->
        IF i > off /\ i <= off + n /\ i - off <= Len(src) THEN src[i - off] ELSE dst[i]]

(***************************************************************************)
(* Pearson hash                                                            *)
(***************************************************************************)
_red_stack_spi_pearson_permutation == <<
    1, 87, 49, 12, 176, 178, 102, 166, 121, 193, 6, 84, 249, 230, 44, 163,
    14, 197, 213, 181, 161, 85, 218, 80, 64, 239, 24, 226, 236, 142, 38, 200,
    110, 177, 104, 103, 141, 253, 255, 50, 77, 101, 81, 18, 45, 96, 31, 222,
    25, 107, 190, 70, 86, 237, 240, 34, 72, 242, 20, 214, 244, 227, 149, 235,
    97, 234, 57, 22, 60, 250, 82, 175, 208, 5, 127, 199, 111, 62, 135, 248,
    174, 169, 211, 58, 66, 154, 106, 195, 245, 171, 17, 187, 182, 179, 0, 243,
    132, 56, 148, 75, 128, 133, 158, 100, 130, 126, 91, 13, 153, 246, 216, 219,
    119, 68, 223, 78, 83, 88, 201, 99, 122, 11, 92, 32, 136, 114, 52, 10,
    138, 30, 48, 183, 156, 35, 61, 26, 143, 74, 251, 94, 129, 162, 63, 152,
    170, 7, 115, 167, 241, 206, 3, 150, 55, 59, 151, 220, 90, 53, 23, 131,
    125, 173, 15, 238, 79, 95, 89, 16, 105, 137, 225, 224, 217, 160, 37, 123,
    118, 73, 2, 157, 46, 116, 9, 145, 134, 228, 207, 212, 202, 215, 69, 229,
    27, 188, 67, 124, 168, 252, 42, 4, 29, 108, 21, 247, 19, 205, 39, 203,
    233, 40, 186, 147, 198, 192, 155, 33, 164, 191, 98, 204, 165, 180, 117, 76,
    140, 36, 210, 172, 41, 54, 159, 8, 185, 232, 113, 196, 231, 47, 146, 120,
    51, 65, 28, 144, 254, 221, 93, 189, 194, 139, 112, 43, 71, 109, 184, 209
>>

\* cur ^ next for all pairs of bytes, tabulated
ByteXor == [a \in 0..255 |-> [b \in 0..255 |-> BitXor(a, b)]]

\* PEARSON(cur, next): cur = permutation[cur ^ next]
PEARSON(cur, next) == _red_stack_spi_pearson_permutation[ByteXor[cur][next] + 1]

\* the loop of red_stack_spi_calculate_pearson_hash from index i on
RECURSIVE PearsonLoop(_, _, _, _)
PearsonLoop(data, length, i, checksum) ==
    IF i >= length \/ checksum < 0 THEN checksum
    ELSE PearsonLoop(data, length, i + 1, PEARSON(checksum, data[i + 1]))

red_stack_spi_calculate_pearson_hash(data, length) == PearsonLoop(data, length, 0, 0)

(***************************************************************************)
(* Packets (daemonlib Packet: 8 byte header + payload, 80 bytes in all)    *)
(***************************************************************************)
NULL == <<>>

header_uid(p) == p[1] + 256 * p[2] + 65536 * p[3] + 16777216 * p[4]
header_length(p) == p[5]

\* uint32 as 4 little endian bytes
Le32(v) == << v % 256, (v \div 256) % 256, (v \div 65536) % 256, (v \div 16777216) % 256 >>

RECURSIVE Flatten(_)
Flatten(ss) == IF ss = <<>> THEN <<>> ELSE Head(ss) \o Flatten(Tail(ss))

\* a Packet value: header {uid, length, function_id, sequence_number_and_options,
\* error_code_and_future_use} followed by the payload, zero padded to 80 bytes
MkPacket(uid, length, fid, options, payload) ==
    LET bytes == Le32(uid) \o << length, fid, options, 0 >> \o payload
    IN  [i \in 1..SizeofPacket |-> IF i <= Len(bytes) THEN bytes[i] ELSE 0]

\* StackEnumerateRequest request = {{0, sizeof(StackEnumerateRequest),
\*                                   FUNCTION_STACK_ENUMERATE, 0x08, 0}}
StackEnumerateRequest ==
    MkPacket(0, SizeofPacketHeader, FUNCTION_STACK_ENUMERATE, 8, <<>>)

\* response->uids[i], i = 0 .. PACKET_STACK_ENUMERATE_MAX_UIDS-1
response_uid(packet, i) ==
    LET o == SizeofPacketHeader + 4 * i
    IN  packet[o + 1] + 256 * packet[o + 2] + 65536 * packet[o + 3]
        + 16777216 * packet[o + 4]

(***************************************************************************)
(* red_stack_spi_transceive_message                                        *)
(***************************************************************************)
\* TransceiveTx that hashes one byte too many: the checksum byte itself
TransceiveTxHashesChecksumByte(packet_send, status) ==
    LET tx0 == [Zeros(RED_STACK_SPI_PACKET_SIZE) EXCEPT ![1] = RED_STACK_SPI_PREAMBLE_VALUE]
        Finish(tx, retval) ==
            LET length == tx[2]
                tx1 == [tx EXCEPT ![length - 2 + 1] = 0]
                tx2 == [tx1 EXCEPT ![length - 1 + 1] =
                            red_stack_spi_calculate_pearson_hash(tx1, length)]
            IN  [retval |-> retval, tx |-> tx2, abort |-> FALSE]
    IN  IF packet_send = NULL \/ status = RED_STACK_SLAVE_STATUS_AVAILABLE_BUSY
        THEN Finish([tx0 EXCEPT ![2] = 4], RED_STACK_TRANSCEIVE_RESULT_SEND_NONE)
        ELSE IF status = RED_STACK_SLAVE_STATUS_AVAILABLE
        THEN LET length == header_length(packet_send)
             IN  IF length > SizeofPacket
                 THEN [retval |-> RED_STACK_TRANSCEIVE_RESULT_SEND_ERROR,
                       tx |-> tx0, abort |-> TRUE]
                 ELSE Finish(Memcpy([tx0 EXCEPT ![2] = length + RED_STACK_SPI_PACKET_EMPTY_SIZE],
                                    2, packet_send, length),
                             BitOr(RED_STACK_TRANSCEIVE_DATA_SEND,
                                   RED_STACK_TRANSCEIVE_RESULT_SEND_OK))
        ELSE [retval |-> RED_STACK_TRANSCEIVE_RESULT_SEND_ERROR,
              tx |-> tx0, abort |-> TRUE]

\* Lines 235-273: the TX frame.  abort is TRUE where the code jumps to ret
\* before the slave is selected.
TransceiveTx(packet_send, status) ==
    LET tx0 == [Zeros(RED_STACK_SPI_PACKET_SIZE) EXCEPT ![1] = RED_STACK_SPI_PREAMBLE_VALUE]
        Finish(tx, retval) ==
            LET length == tx[2]
                tx1 == [tx EXCEPT ![length - 2 + 1] = 0]
                tx2 == [tx1 EXCEPT ![length - 1 + 1] =
                            red_stack_spi_calculate_pearson_hash(tx1, length - 1)]
            IN  [retval |-> retval, tx |-> tx2, abort |-> FALSE]
    IN  IF packet_send = NULL \/ status = RED_STACK_SLAVE_STATUS_AVAILABLE_BUSY
        THEN Finish([tx0 EXCEPT ![2] = 4], RED_STACK_TRANSCEIVE_RESULT_SEND_NONE)
        ELSE IF status = RED_STACK_SLAVE_STATUS_AVAILABLE
        THEN LET length == header_length(packet_send)
             IN  IF length > SizeofPacket
                 THEN [retval |-> RED_STACK_TRANSCEIVE_RESULT_SEND_ERROR,
                       tx |-> tx0, abort |-> TRUE]
                 ELSE Finish(Memcpy([tx0 EXCEPT ![2] = length + RED_STACK_SPI_PACKET_EMPTY_SIZE],
                                    2, packet_send, length),
                             BitOr(RED_STACK_TRANSCEIVE_DATA_SEND,
                                   RED_STACK_TRANSCEIVE_RESULT_SEND_OK))
        ELSE [retval |-> RED_STACK_TRANSCEIVE_RESULT_SEND_ERROR,
              tx |-> tx0, abort |-> TRUE]

\* TransceiveRx without the comparison of the checksum
TransceiveRxSkipsChecksum(retval, packet_recv, status, length_send, rx) ==
    LET Ret(r, p, s) == [retval |-> r, packet_recv |-> p, status |-> s]
        length == rx[2]
    IN  IF length_send # RED_STACK_SPI_PACKET_SIZE
        THEN Ret(BitOr(RED_STACK_TRANSCEIVE_RESULT_SEND_ERROR,
                       RED_STACK_TRANSCEIVE_RESULT_READ_ERROR), packet_recv, status)
        ELSE IF rx[1] # RED_STACK_SPI_PREAMBLE_VALUE
        THEN IF rx[1] = 0
             THEN Ret(BitOr(retval, RED_STACK_TRANSCEIVE_RESULT_READ_NONE), packet_recv, status)
             ELSE Ret(BitOr(retval, RED_STACK_TRANSCEIVE_RESULT_READ_ERROR), packet_recv, status)
        ELSE IF length < RED_STACK_SPI_PACKET_EMPTY_SIZE + SizeofPacketHeader
                \/ length > RED_STACK_SPI_PACKET_SIZE
        THEN Ret(BitOr(retval, RED_STACK_TRANSCEIVE_RESULT_READ_ERROR), packet_recv, status)
        ELSE LET status1 ==
                     IF BitAnd(rx[length - 2 + 1], RED_STACK_SPI_INFO_BUSY) # 0
                     THEN RED_STACK_SLAVE_STATUS_AVAILABLE_BUSY
                     ELSE RED_STACK_SLAVE_STATUS_AVAILABLE
             IN  IF length = RED_STACK_SPI_PACKET_EMPTY_SIZE
                 THEN Ret(BitOr(retval, RED_STACK_TRANSCEIVE_RESULT_READ_NONE),
                          packet_recv, status1)
                 ELSE Ret(BitOr(retval, BitOr(RED_STACK_TRANSCEIVE_RESULT_READ_OK,
                                              RED_STACK_TRANSCEIVE_DATA_RECEIVED)),
                          Memcpy(packet_recv, 0, SubSeq(rx, 3, RED_STACK_SPI_PACKET_SIZE),
                                 length - RED_STACK_SPI_PACKET_EMPTY_SIZE),
                          status1)

\* TransceiveRx that keeps the send result when the ioctl fails
TransceiveRxKeepsSendResult(retval, packet_recv, status, length_send, rx) ==
    LET Ret(r, p, s) == [retval |-> r, packet_recv |-> p, status |-> s]
        length == rx[2]
    IN  IF length_send # RED_STACK_SPI_PACKET_SIZE
        THEN Ret(BitOr(retval, RED_STACK_TRANSCEIVE_RESULT_READ_ERROR), packet_recv, status)
        ELSE IF rx[1] # RED_STACK_SPI_PREAMBLE_VALUE
        THEN IF rx[1] = 0
             THEN Ret(BitOr(retval, RED_STACK_TRANSCEIVE_RESULT_READ_NONE), packet_recv, status)
             ELSE Ret(BitOr(retval, RED_STACK_TRANSCEIVE_RESULT_READ_ERROR), packet_recv, status)
        ELSE IF length < RED_STACK_SPI_PACKET_EMPTY_SIZE + SizeofPacketHeader
                \/ length > RED_STACK_SPI_PACKET_SIZE
        THEN Ret(BitOr(retval, RED_STACK_TRANSCEIVE_RESULT_READ_ERROR), packet_recv, status)
        ELSE IF red_stack_spi_calculate_pearson_hash(rx, length - 1) # rx[length - 1 + 1]
        THEN Ret(BitOr(retval, RED_STACK_TRANSCEIVE_RESULT_READ_ERROR), packet_recv, status)
        ELSE LET status1 ==
                     IF BitAnd(rx[length - 2 + 1], RED_STACK_SPI_INFO_BUSY) # 0
                     THEN RED_STACK_SLAVE_STATUS_AVAILABLE_BUSY
                     ELSE RED_STACK_SLAVE_STATUS_AVAILABLE
             IN  IF length = RED_STACK_SPI_PACKET_EMPTY_SIZE
                 THEN Ret(BitOr(retval, RED_STACK_TRANSCEIVE_RESULT_READ_NONE),
                          packet_recv, status1)
                 ELSE Ret(BitOr(retval, BitOr(RED_STACK_TRANSCEIVE_RESULT_READ_OK,
                                              RED_STACK_TRANSCEIVE_DATA_RECEIVED)),
                          Memcpy(packet_recv, 0, SubSeq(rx, 3, RED_STACK_SPI_PACKET_SIZE),
                                 length - RED_STACK_SPI_PACKET_EMPTY_SIZE),
                          status1)

\* Lines 285-346: evaluation of the ioctl result and of the RX frame.
\* Yields the return value, packet_recv and slave->status.
TransceiveRx(retval, packet_recv, status, length_send, rx) ==
    LET Ret(r, p, s) == [retval |-> r, packet_recv |-> p, status |-> s]
        length == rx[2]
    IN  IF length_send # RED_STACK_SPI_PACKET_SIZE
        THEN Ret(BitOr(RED_STACK_TRANSCEIVE_RESULT_SEND_ERROR,
                       RED_STACK_TRANSCEIVE_RESULT_READ_ERROR), packet_recv, status)
        ELSE IF rx[1] # RED_STACK_SPI_PREAMBLE_VALUE
        THEN IF rx[1] = 0
             THEN Ret(BitOr(retval, RED_STACK_TRANSCEIVE_RESULT_READ_NONE), packet_recv, status)
             ELSE Ret(BitOr(retval, RED_STACK_TRANSCEIVE_RESULT_READ_ERROR), packet_recv, status)
        ELSE IF length < RED_STACK_SPI_PACKET_EMPTY_SIZE + SizeofPacketHeader
                \/ length > RED_STACK_SPI_PACKET_SIZE
        THEN Ret(BitOr(retval, RED_STACK_TRANSCEIVE_RESULT_READ_ERROR), packet_recv, status)
        ELSE IF red_stack_spi_calculate_pearson_hash(rx, length - 1) # rx[length - 1 + 1]
        THEN Ret(BitOr(retval, RED_STACK_TRANSCEIVE_RESULT_READ_ERROR), packet_recv, status)
        ELSE LET status1 ==
                     IF BitAnd(rx[length - 2 + 1], RED_STACK_SPI_INFO_BUSY) # 0
                     THEN RED_STACK_SLAVE_STATUS_AVAILABLE_BUSY
                     ELSE RED_STACK_SLAVE_STATUS_AVAILABLE
             IN  IF length = RED_STACK_SPI_PACKET_EMPTY_SIZE
                 THEN Ret(BitOr(retval, RED_STACK_TRANSCEIVE_RESULT_READ_NONE),
                          packet_recv, status1)
                 ELSE Ret(BitOr(retval, BitOr(RED_STACK_TRANSCEIVE_RESULT_READ_OK,
                                              RED_STACK_TRANSCEIVE_DATA_RECEIVED)),
                          Memcpy(packet_recv, 0, SubSeq(rx, 3, RED_STACK_SPI_PACKET_SIZE),
                                 length - RED_STACK_SPI_PACKET_EMPTY_SIZE),
                          status1)

\* The whole call.  xfer = [length_send, rx] is what the ioctl returns and
\* what the slave clocked out during the 84 byte exchange.  selected tells
\* whether chip select was asserted (lines 281-283); tx and xfer are the two
\* frames of the exchange.
red_stack_spi_transceive_message(packet_send, packet_recv, status, xfer) ==
    LET recv0 == [packet_recv EXCEPT ![5] = 0]
        t == TransceiveTx(packet_send, status)
    IN  IF t.abort
        THEN [retval |-> t.retval, packet_recv |-> recv0, status |-> status,
              selected |-> FALSE, tx |-> t.tx, xfer |-> xfer]
        ELSE LET r == TransceiveRx(t.retval, recv0, status, xfer.length_send, xfer.rx)
             IN  [retval |-> r.retval, packet_recv |-> r.packet_recv, status |-> r.status,
                  selected |-> TRUE, tx |-> t.tx, xfer |-> xfer]

DataSend(ret) == BitAnd(ret, RED_STACK_TRANSCEIVE_DATA_SEND) # 0
DataReceived(ret) == BitAnd(ret, RED_STACK_TRANSCEIVE_DATA_RECEIVED) # 0
\* the SEND and READ fields of a return value
SentField(ret) == BitAnd(ret, 7)
ReadField(ret) == BitAnd(ret, 24)

(***************************************************************************)
(* What the slaves clock out during an exchange                            *)
(***************************************************************************)
\* A well formed frame as the stack firmware builds it
SlaveFrame(payload, info) ==
    LET length == Len(payload) + RED_STACK_SPI_PACKET_EMPTY_SIZE
        head == << RED_STACK_SPI_PREAMBLE_VALUE, length >> \o payload \o << info >>
        sum == red_stack_spi_calculate_pearson_hash(head, length - 1)
        bytes == head \o << sum >>
    IN  [i \in 1..RED_STACK_SPI_PACKET_SIZE |-> IF i <= Len(bytes) THEN bytes[i] ELSE 0]

PacketFrame(packet, info) == SlaveFrame(SubSeq(packet, 1, header_length(packet)), info)

\* StackEnumerateResponse: header + uids[PACKET_STACK_ENUMERATE_MAX_UIDS]
EnumerateResponse(uids) ==
    MkPacket(0, SizeofPacketHeader + 4 * PACKET_STACK_ENUMERATE_MAX_UIDS,
             FUNCTION_STACK_ENUMERATE, 8,
             Flatten([i \in 1..Len(uids) |-> Le32(uids[i])]))

\* the k-th packet the slaves send during polling: k payload bytes of value k
Response(k) == MkPacket(k, SizeofPacketHeader + k, k, 8, [i \in 1..k |-> k])

Ok(rx) == [length_send |-> RED_STACK_SPI_PACKET_SIZE, rx |-> rx]
\* ioctl returned -1, stored in the uint8_t length_send
XferFailed == [length_send |-> 255, rx |-> Zeros(RED_STACK_SPI_PACKET_SIZE)]
\* nothing drives MISO
XferIdle == Ok(Zeros(RED_STACK_SPI_PACKET_SIZE))
XferBadPreamble == Ok([Zeros(RED_STACK_SPI_PACKET_SIZE) EXCEPT ![1] = 255])
XferEmpty == { Ok(SlaveFrame(<<>>, info)) : info \in {0, 1} }
XferBadChecksum ==
    LET f == PacketFrame(Response(1), 0)
    IN  Ok([f EXCEPT ![f[2]] = (f[f[2]] + 1) % 256])
XferBadLength ==
    { Ok([PacketFrame(Response(1), 0) EXCEPT ![2] = 85]),
      Ok([PacketFrame(Response(1), 0) EXCEPT ![2] = 5]) }
\* faulty exchanges: the ioctl fails or the frame is damaged
XferGlitch == { XferFailed, XferBadPreamble, XferBadChecksum } \cup XferBadLength
XferData(packets) == { Ok(PacketFrame(p, info)) : p \in packets, info \in {0, 1} }

\* the uids[] of the enumerate response of the brick in slot s: one or two
\* uids, a list with a zero in the middle in slot 6, a full list in slot 7
BrickUids(s) ==
    IF s = 7 THEN [i \in 1..PACKET_STACK_ENUMERATE_MAX_UIDS |-> 10 + i]
    ELSE IF s = 6 THEN << 4, 0, 5 >>
    ELSE IF s % 2 = 0 THEN << 1 >> ELSE << 2, 1 >>

\* a packet that is only a header, shorter than a StackEnumerateResponse
ShortResponse == MkPacket(0, SizeofPacketHeader, FUNCTION_STACK_ENUMERATE, 8, <<>>)

\* the packets the brick in slot s sends while it is enumerated; the brick in
\* slot 5 may answer with the short packet
BrickAnswers(s) ==
    { EnumerateResponse(BrickUids(s)) } \cup (IF s = 5 THEN { ShortResponse } ELSE {})

\* the bricks in slots 0 and 2 may report busy while they are enumerated
BrickInfos(s) == IF s \in { 0, 2 } THEN { 0, RED_STACK_SPI_INFO_BUSY } ELSE { 0 }

\* the frames with a packet that every slot may answer during discovery
XferEnumerate ==
    [s \in 0..(RED_STACK_SPI_MAX_SLAVES - 1) |->
        { Ok(PacketFrame(p, info)) : p \in BrickAnswers(s), info \in BrickInfos(s) }]

(***************************************************************************)
(* State                                                                   *)
(***************************************************************************)
VARIABLES
    \* REDStack _red_stack
    slaves,                 \* slaves[i] = [status, uids, uids_num], i in 0..7
    slave_num,
    packet_from_spi,
    packet_to_spi_queue,    \* FIFO of REDStackPacket [slave, packet] (+ push number id)
    \* file statics
    _red_stack_spi_thread_running,
    spi_fd_open,            \* _red_stack_spi_fd refers to the open spidev
    semaphore,              \* _red_stack_dispatch_packet_from_spi_semaphore
    mutex,                  \* owner of _red_stack_packet_queue_mutex
    pipe,                   \* bytes in _red_stack_notification_pipe
    \* SPI thread
    spi_pc,
    stack_address, tries, packet, uid_i,      \* red_stack_spi_create_routing_table
    stack_address_cycle, packet_to_spi, request, slave, ret,   \* red_stack_spi_thread
    \* event thread
    ev_pc, ev_request, ev_is, ev_slave,
    \* environment
    attached,               \* slots 0..attached-1 have a brick that can answer
    \* observation of the program
    bus,                    \* last exchange: slave, its status at chip select, frames
    registered,             \* uids passed to stack_add_uid, in call order
    pushed,                 \* work items in the order of queue_push
    sent,                   \* push numbers of the requests sent (DATA_SEND), in bus order
    received,               \* packets received in polling (DATA_RECEIVED), in bus order
    delivered,              \* packets passed to network_dispatch_response
    staged,                 \* a received packet waits for red_stack_dispatch_from_spi
    ev_pushes,              \* work items pushed by the last red_stack_dispatch_to_spi
    ev_dropped,             \* uid of the request that call discarded (0: none)
    \* red_stack_init on the main thread
    init_pc,
    phase,
    init_ret,               \* return value of red_stack_init once init_pc = "done"
    acquired,               \* resources whose create/add/open call succeeded
    released,               \* resources passed to a destroy/remove/close call
    \* red_extension_init and red_extension_exit on the main thread
    ext_pc,
    ext_i,                  \* loop variable i
    ext_ret,                \* return value of red_extension_init once it has returned
    base_config,            \* local base_config[2]: [extension, type]
    _red_extension_type,
    i2c_held,               \* positions whose I2CEEPROM was initialised and not released
    eeprom,                 \* what detection read at each position: [type, config]
    pins,                   \* pin plans applied to each position, in call order
    ext_inits,              \* type whose init function was called for the position
    ext_exits               \* type whose exit function red_extension_exit called

stackVars == << slaves, slave_num, packet_from_spi, packet_to_spi_queue >>
syncVars == << _red_stack_spi_thread_running, spi_fd_open, semaphore, mutex, pipe >>
rtVars == << stack_address, tries, packet, uid_i >>
loopVars == << stack_address_cycle, packet_to_spi, request, slave, ret >>
evVars == << ev_pc, ev_request, ev_is, ev_slave >>
envVars == << attached >>
obsVars == << bus, registered, pushed, sent, received, delivered, staged, ev_pushes,
             ev_dropped >>
initVars == << init_pc, phase, init_ret, acquired, released >>
extVars == << ext_pc, ext_i, ext_ret, base_config, _red_extension_type, i2c_held,
             eeprom, pins, ext_inits, ext_exits >>
vars == << stackVars, syncVars, spi_pc, rtVars, loopVars, evVars, envVars, obsVars,
          initVars, extVars >>

Slots == 0..(RED_STACK_SPI_MAX_SLAVES - 1)

NoXfer == [slave |-> 0, status |-> "none", tx |-> <<>>, id |-> 0,
           length_send |-> 0, rx |-> <<>>, idle_only |-> FALSE]

\* what red_stack_init and red_stack_init_spi create, add or open
Resources == { "base_stack", "hardware_stack", "notification_pipe", "event_source",
               "packet_to_spi_queue", "gpio", "spi_fd", "semaphore", "mutex",
               "spi_thread" }

Positions == 0..(EXTENSION_NUM_MAX - 1)

\* nothing read from an EEPROM, no init or exit function called
NoType == -1

\* State at the call of red_extension_init: _red_extension_type is NONE for
\* both positions, the local base_config is not initialised (no field of it
\* is read before lines 238-239 have written it)
InitExtension ==
    /\ ext_pc = "ext_init" /\ ext_i = 0 /\ ext_ret = 0
    /\ base_config = [i \in Positions |-> [extension |-> NoType, type |-> NoType]]
    /\ _red_extension_type = [i \in Positions |-> EXTENSION_TYPE_NONE]
    /\ i2c_held = {}
    /\ eeprom = [i \in Positions |-> [type |-> NoType, config |-> "unread"]]
    /\ pins = [i \in Positions |-> <<>>]
    /\ ext_inits = [i \in Positions |-> NoType]
    /\ ext_exits = [i \in Positions |-> NoType]

\* State after red_stack_init has returned 0: red_stack_init_spi has set up
\* every slave as ABSENT without uids, the semaphore is 0, the pipe empty
\* and the SPI thread has been created.
InitProgram ==
    /\ slaves = [i \in Slots |->
                    [status |-> RED_STACK_SLAVE_STATUS_ABSENT,
                     uids |-> Zeros(PACKET_STACK_ENUMERATE_MAX_UIDS),
                     uids_num |-> 0]]
    /\ slave_num = 0
    /\ packet_from_spi = Zeros(SizeofPacket)
    /\ packet_to_spi_queue = <<>>
    /\ _red_stack_spi_thread_running = 0
    /\ spi_fd_open = TRUE
    /\ semaphore = 0
    /\ mutex = "none"
    /\ pipe = 0
    /\ spi_pc = "rt_while"
    /\ stack_address = 0 /\ tries = 0 /\ packet = Zeros(SizeofPacket) /\ uid_i = 0
    /\ stack_address_cycle = 0 /\ packet_to_spi = NULL /\ request = NULL
    /\ slave = 0 /\ ret = 0
    /\ ev_pc = "idle" /\ ev_request = NULL /\ ev_is = 0 /\ ev_slave = 0
    /\ bus = NoXfer
    /\ registered = <<>> /\ pushed = <<>> /\ sent = <<>>
    /\ received = <<>> /\ delivered = <<>> /\ staged = FALSE /\ ev_pushes = <<>>
    /\ ev_dropped = 0
    /\ init_pc = "done" /\ phase = 4 /\ init_ret = 0
    /\ acquired = Resources /\ released = {}
    /\ InitExtension

Init ==
    /\ InitProgram
    /\ attached \in 0..MaxPresent

\* A full stack: a brick is attached to every one of the eight slots
InitDisc ==
    /\ InitProgram
    /\ attached = RED_STACK_SPI_MAX_SLAVES

(***************************************************************************)
(* The exchange as seen by both sides                                      *)
(***************************************************************************)
\* Answers the bus can give when slave s is addressed; data is the set of
\* answers that carry a packet.  On a closed file descriptor the ioctl fails,
\* an empty slot leaves MISO idle.
Xfers(s, data) ==
    IF ~spi_fd_open THEN { XferFailed }
    ELSE IF s < attached THEN { XferIdle } \cup XferEmpty \cup XferGlitch \cup data
    ELSE { XferIdle, XferFailed, XferBadPreamble }

\* the outcomes of one call of red_stack_spi_transceive_message
Outcomes(packet_send, packet_recv, s, data) ==
    { red_stack_spi_transceive_message(packet_send, packet_recv, slaves[s].status, xfer) :
        xfer \in Xfers(s, data) }

\* record of an exchange on the bus (only when chip select was asserted):
\* the slave, its status at chip select, the two frames, the result of the
\* ioctl, and whether this and all exchanges with the same slave just before
\* it were answered with an all-zero frame
Exchange(s, status, r, id) ==
    IF r.selected
    THEN [slave |-> s, status |-> status, tx |-> r.tx, id |-> id,
          length_send |-> r.xfer.length_send, rx |-> r.xfer.rx,
          idle_only |-> /\ r.xfer = XferIdle
                        /\ (bus # NoXfer /\ bus.slave = s) => bus.idle_only]
    ELSE bus

(***************************************************************************)
(* red_stack_spi_create_routing_table (SPI thread)                         *)
(***************************************************************************)
\* what the uninitialised local "Packet packet" (line 361) may hold when the
\* loop body is entered: what the last round left in it, or zeros
IndeterminatePacket == { packet, Zeros(SizeofPacket) }

\* while(stack_address < RED_STACK_SPI_MAX_SLAVES) { Packet packet; ...
\*     slave->status = AVAILABLE; ...
RtWhile ==
    /\ spi_pc = "rt_while"
    /\ IF stack_address < RED_STACK_SPI_MAX_SLAVES
       THEN /\ slaves' = [slaves EXCEPT ![stack_address].status =
                                            RED_STACK_SLAVE_STATUS_AVAILABLE]
            /\ packet' \in IndeterminatePacket
            /\ tries' = 0
            /\ spi_pc' = "rt_send"
       ELSE /\ spi_pc' = "rt_done"
            /\ UNCHANGED << slaves, tries, packet >>
    /\ UNCHANGED << slave_num, packet_from_spi, packet_to_spi_queue, syncVars,
                    stack_address, uid_i, loopVars, evVars, envVars, initVars, extVars, obsVars >>

\* one attempt of the send loop (lines 375-381); leaves the loop on DATA_SEND
RtSend ==
    /\ spi_pc = "rt_send"
    /\ tries < RED_STACK_SPI_ROUTING_TRIES
    /\ \E r \in Outcomes(StackEnumerateRequest, packet, stack_address, XferEnumerate[stack_address]) :
             /\ slaves' = [slaves EXCEPT ![stack_address].status = r.status]
             /\ packet' = r.packet_recv
             /\ bus' = Exchange(stack_address, slaves[stack_address].status, r, 0)
             /\ IF DataSend(r.retval)
                THEN tries' = 0 /\ spi_pc' = "rt_recv"
                ELSE tries' = tries + 1 /\ spi_pc' = "rt_send"
    /\ UNCHANGED << slave_num, packet_from_spi, packet_to_spi_queue, syncVars,
                    stack_address, uid_i, loopVars, evVars, envVars, initVars, extVars,
                    registered, pushed, sent, received, delivered, staged, ev_pushes, ev_dropped >>

\* RtRecv with a loop test that allows one more attempt
RtRecvOneMoreTry ==
    /\ spi_pc = "rt_recv"
    /\ tries <= RED_STACK_SPI_ROUTING_TRIES
    /\ \E r \in Outcomes(NULL, packet, stack_address, XferEnumerate[stack_address]) :
             /\ slaves' = [slaves EXCEPT ![stack_address].status = r.status]
             /\ packet' = r.packet_recv
             /\ bus' = Exchange(stack_address, slaves[stack_address].status, r, 0)
             /\ IF DataReceived(r.retval)
                THEN tries' = tries /\ spi_pc' = "rt_uids" /\ uid_i' = 0
                ELSE tries' = tries + 1 /\ spi_pc' = "rt_recv" /\ uid_i' = uid_i
    /\ UNCHANGED << slave_num, packet_from_spi, packet_to_spi_queue, syncVars,
                    stack_address, loopVars, evVars, envVars, initVars, extVars,
                    registered, pushed, sent, received, delivered, staged, ev_pushes, ev_dropped >>

\* one attempt of the receive loop (lines 392-398); leaves it on DATA_RECEIVED
RtRecv ==
    /\ spi_pc = "rt_recv"
    /\ tries < RED_STACK_SPI_ROUTING_TRIES
    /\ \E r \in Outcomes(NULL, packet, stack_address, XferEnumerate[stack_address]) :
             /\ slaves' = [slaves EXCEPT ![stack_address].status = r.status]
             /\ packet' = r.packet_recv
             /\ bus' = Exchange(stack_address, slaves[stack_address].status, r, 0)
             /\ IF DataReceived(r.retval)
                THEN tries' = tries /\ spi_pc' = "rt_uids" /\ uid_i' = 0
                ELSE tries' = tries + 1 /\ spi_pc' = "rt_recv" /\ uid_i' = uid_i
    /\ UNCHANGED << slave_num, packet_from_spi, packet_to_spi_queue, syncVars,
                    stack_address, loopVars, evVars, envVars, initVars, extVars,
                    registered, pushed, sent, received, delivered, staged, ev_pushes, ev_dropped >>

\* RtAbsent that leaves the loop without marking the slave
RtAbsentKeepsStatus ==
    /\ spi_pc \in { "rt_send", "rt_recv" }
    /\ tries = RED_STACK_SPI_ROUTING_TRIES
    /\ spi_pc' = "rt_done"
    /\ UNCHANGED << stackVars, syncVars, rtVars, loopVars, evVars, envVars, initVars, extVars, obsVars >>

\* if(tries == RED_STACK_SPI_ROUTING_TRIES) { slave->status = ABSENT; break; }
\* after either loop (lines 383-389 and 400-406)
RtAbsent ==
    /\ spi_pc \in { "rt_send", "rt_recv" }
    /\ tries = RED_STACK_SPI_ROUTING_TRIES
    /\ slaves' = [slaves EXCEPT ![stack_address].status = RED_STACK_SLAVE_STATUS_ABSENT]
    /\ spi_pc' = "rt_done"
    /\ UNCHANGED << slave_num, packet_from_spi, packet_to_spi_queue, syncVars,
                    rtVars, loopVars, evVars, envVars, initVars, extVars, obsVars >>

\* one round of the uid loop (lines 410-421), then uids_num = i; stack_address++
RtUids ==
    /\ spi_pc = "rt_uids"
    /\ IF uid_i < PACKET_STACK_ENUMERATE_MAX_UIDS /\ response_uid(packet, uid_i) # 0
       THEN /\ slaves' = [slaves EXCEPT ![stack_address].uids[uid_i + 1] =
                                            response_uid(packet, uid_i)]
            /\ registered' = Append(registered, response_uid(packet, uid_i))
            /\ uid_i' = uid_i + 1
            /\ UNCHANGED << stack_address, spi_pc >>
       ELSE /\ slaves' = [slaves EXCEPT ![stack_address].uids_num = uid_i]
            /\ stack_address' = stack_address + 1
            /\ spi_pc' = "rt_while"
            /\ UNCHANGED << registered, uid_i >>
    /\ UNCHANGED << slave_num, packet_from_spi, packet_to_spi_queue, syncVars,
                    tries, packet, loopVars, evVars, envVars, initVars, extVars,
                    bus, pushed, sent, received, delivered, staged, ev_pushes, ev_dropped >>

\* RtDone that counts the slot that failed as well
RtDoneCountsFailedSlot ==
    /\ spi_pc = "rt_done"
    /\ slave_num' = IF stack_address < RED_STACK_SPI_MAX_SLAVES
                    THEN stack_address + 1 ELSE stack_address
    /\ packet' = Zeros(SizeofPacket)
    /\ spi_pc' = "thread_start"
    /\ UNCHANGED << slaves, packet_from_spi, packet_to_spi_queue, syncVars,
                    stack_address, tries, uid_i, loopVars, evVars, envVars, initVars, extVars, obsVars >>

\* _red_stack.slave_num = stack_address (line 426); the local packet is gone
\* when the function returns
RtDone ==
    /\ spi_pc = "rt_done"
    /\ slave_num' = stack_address
    /\ packet' = Zeros(SizeofPacket)
    /\ spi_pc' = "thread_start"
    /\ UNCHANGED << slaves, packet_from_spi, packet_to_spi_queue, syncVars,
                    stack_address, tries, uid_i, loopVars, evVars, envVars, initVars, extVars, obsVars >>

(***************************************************************************)
(* red_stack_spi_thread after discovery (SPI thread)                       *)
(***************************************************************************)
\* ThreadStart that enters the polling loop also without slaves
ThreadStartPollsAnyway ==
    /\ spi_pc = "thread_start"
    /\ spi_pc' = "loop" /\ _red_stack_spi_thread_running' = 1
    /\ UNCHANGED << stackVars, spi_fd_open, semaphore, mutex, pipe,
                    rtVars, loopVars, evVars, envVars, initVars, extVars, obsVars >>

\* after discovery: return if there are no slaves, else set the running flag
\* (lines 446-452)
ThreadStart ==
    /\ spi_pc = "thread_start"
    /\ IF slave_num = 0
       THEN spi_pc' = "exited" /\ UNCHANGED _red_stack_spi_thread_running
       ELSE spi_pc' = "loop" /\ _red_stack_spi_thread_running' = 1
    /\ UNCHANGED << stackVars, spi_fd_open, semaphore, mutex, pipe,
                    rtVars, loopVars, evVars, envVars, initVars, extVars, obsVars >>

\* while(_red_stack_spi_thread_running) { slave = &slaves[stack_address_cycle];
\*   request = NULL; memset(&packet_from_spi, 0, sizeof(Packet));   (lines 453-456)
\* reached from the end of the previous tick after the sleep (lines 506-526)
LoopTop ==
    /\ spi_pc = "loop"
    /\ IF _red_stack_spi_thread_running # 0
       THEN /\ slave' = stack_address_cycle
            /\ request' = NULL
            /\ packet_from_spi' = Zeros(SizeofPacket)
            /\ spi_pc' = "peek_lock"
       ELSE /\ spi_pc' = "exited"
            /\ UNCHANGED << slave, request, packet_from_spi >>
    \* ret of the last tick is dead and its exchange is over
    /\ ret' = 0 /\ bus' = NoXfer
    /\ UNCHANGED << slaves, slave_num, packet_to_spi_queue, syncVars, rtVars,
                    stack_address_cycle, packet_to_spi, evVars, envVars, initVars, extVars,
                    registered, pushed, sent, received, delivered, staged, ev_pushes,
                    ev_dropped >>

\* mutex_lock(&_red_stack_packet_queue_mutex) before queue_peek and queue_pop
SpiLock ==
    /\ spi_pc \in { "peek_lock", "pop_lock" }
    /\ mutex = "none"
    /\ mutex' = "spi"
    /\ spi_pc' = IF spi_pc = "peek_lock" THEN "peek" ELSE "pop"
    /\ UNCHANGED << stackVars, _red_stack_spi_thread_running, spi_fd_open, semaphore,
                    pipe, rtVars, loopVars, evVars, envVars, initVars, extVars, obsVars >>

\* NextCycle that wraps one step late
NextCycleWrapsLate(cycle) == IF cycle + 1 > slave_num THEN 0 ELSE cycle + 1

\* stack_address_cycle++; if(stack_address_cycle >= slave_num) stack_address_cycle = 0;
NextCycle(cycle) == IF cycle + 1 >= slave_num THEN 0 ELSE cycle + 1

\* Peek that moves the cursor on also when it takes a request from the queue
PeekAdvancesWithRequest ==
    /\ spi_pc = "peek"
    /\ mutex' = "none"
    /\ IF packet_to_spi_queue = <<>>
       THEN /\ packet_to_spi' = NULL
            /\ stack_address_cycle' = NextCycle(stack_address_cycle)
            /\ UNCHANGED << request, slave >>
       ELSE /\ packet_to_spi' = Head(packet_to_spi_queue)
            /\ request' = Head(packet_to_spi_queue).packet
            /\ slave' = Head(packet_to_spi_queue).slave
            /\ stack_address_cycle' = NextCycle(stack_address_cycle)
    /\ spi_pc' = "transceive"
    /\ UNCHANGED << stackVars, _red_stack_spi_thread_running, spi_fd_open, semaphore,
                    pipe, rtVars, ret, evVars, envVars, initVars, extVars, obsVars >>

\* queue_peek, mutex_unlock and the choice of slave and request (lines 463-479)
Peek ==
    /\ spi_pc = "peek"
    /\ mutex' = "none"
    /\ IF packet_to_spi_queue = <<>>
       THEN /\ packet_to_spi' = NULL
            /\ stack_address_cycle' = NextCycle(stack_address_cycle)
            /\ UNCHANGED << request, slave >>
       ELSE /\ packet_to_spi' = Head(packet_to_spi_queue)
            /\ request' = Head(packet_to_spi_queue).packet
            /\ slave' = Head(packet_to_spi_queue).slave
            /\ UNCHANGED stack_address_cycle
    /\ spi_pc' = "transceive"
    /\ UNCHANGED << stackVars, _red_stack_spi_thread_running, spi_fd_open, semaphore,
                    pipe, rtVars, ret, evVars, envVars, initVars, extVars, obsVars >>

\* AfterTransceive that pops whenever the request came from the queue
AfterTransceivePopsRequest(retval) ==
    IF DataSend(retval) \/ request # NULL THEN "pop_lock"
    ELSE IF DataReceived(retval) THEN "notify"
    ELSE "loop"

\* where the thread goes after the exchange (lines 485 and 497)
AfterTransceive(retval) ==
    IF DataSend(retval) THEN "pop_lock"
    ELSE IF DataReceived(retval) THEN "notify"
    ELSE "loop"

\* Transceive that marks a slave ABSENT when the transfer to it fails
TransceiveDropsSilentSlave ==
    /\ spi_pc = "transceive"
    /\ \E r \in Outcomes(request, packet_from_spi, slave,
                         IF Len(received) < MaxRecv
                         THEN XferData({ Response(Len(received) + 1) }) ELSE {}) :
         LET id == IF packet_to_spi # NULL /\ r.tx[2] > RED_STACK_SPI_PACKET_EMPTY_SIZE
                   THEN packet_to_spi.id ELSE 0
         IN  /\ slaves' = [slaves EXCEPT ![slave].status =
                                 IF r.retval = BitOr(RED_STACK_TRANSCEIVE_RESULT_SEND_ERROR,
                                                     RED_STACK_TRANSCEIVE_RESULT_READ_ERROR)
                                 THEN RED_STACK_SLAVE_STATUS_ABSENT ELSE r.status]
             /\ packet_from_spi' = r.packet_recv
             /\ ret' = r.retval
             /\ bus' = Exchange(slave, slaves[slave].status, r, id)
             /\ sent' = IF DataSend(r.retval) THEN Append(sent, id) ELSE sent
             /\ received' = IF DataReceived(r.retval)
                            THEN Append(received, r.packet_recv) ELSE received
             /\ staged' = (staged \/ DataReceived(r.retval))
             /\ spi_pc' = AfterTransceive(r.retval)
    /\ UNCHANGED << slave_num, packet_to_spi_queue, syncVars, rtVars,
                    stack_address_cycle, packet_to_spi, request, slave,
                    evVars, envVars, initVars, extVars, registered, pushed, delivered, ev_pushes, ev_dropped >>

\* ret = red_stack_spi_transceive_message(request, &packet_from_spi, slave)
Transceive ==
    /\ spi_pc = "transceive"
    /\ \E r \in Outcomes(request, packet_from_spi, slave,
                         IF Len(received) < MaxRecv
                         THEN XferData({ Response(Len(received) + 1) }) ELSE {}) :
         LET id == IF packet_to_spi # NULL /\ r.tx[2] > RED_STACK_SPI_PACKET_EMPTY_SIZE
                   THEN packet_to_spi.id ELSE 0
         IN  /\ slaves' = [slaves EXCEPT ![slave].status = r.status]
             /\ packet_from_spi' = r.packet_recv
             /\ ret' = r.retval
             /\ bus' = Exchange(slave, slaves[slave].status, r, id)
             /\ sent' = IF DataSend(r.retval) THEN Append(sent, id) ELSE sent
             /\ received' = IF DataReceived(r.retval)
                            THEN Append(received, r.packet_recv) ELSE received
             /\ staged' = (staged \/ DataReceived(r.retval))
             /\ spi_pc' = AfterTransceive(r.retval)
    /\ UNCHANGED << slave_num, packet_to_spi_queue, syncVars, rtVars,
                    stack_address_cycle, packet_to_spi, request, slave,
                    evVars, envVars, initVars, extVars, registered, pushed, delivered, ev_pushes, ev_dropped >>

\* queue_pop and mutex_unlock (lines 491-492)
Pop ==
    /\ spi_pc = "pop"
    /\ packet_to_spi_queue' = Tail(packet_to_spi_queue)
    /\ mutex' = "none"
    /\ spi_pc' = IF DataReceived(ret) THEN "notify" ELSE "loop"
    /\ UNCHANGED << slaves, slave_num, packet_from_spi, _red_stack_spi_thread_running,
                    spi_fd_open, semaphore, pipe, rtVars, loopVars, evVars, envVars, initVars, extVars,
                    obsVars >>

\* red_stack_spi_request_dispatch_response_event: one byte into the pipe, or
\* pipe_write fails; the caller ignores the result (line 500)
Notify ==
    /\ spi_pc = "notify"
    /\ \E ok \in BOOLEAN : pipe' = IF ok THEN pipe + 1 ELSE pipe
    /\ spi_pc' = "acquire"
    /\ UNCHANGED << stackVars, _red_stack_spi_thread_running, spi_fd_open, semaphore,
                    mutex, rtVars, loopVars, evVars, envVars, initVars, extVars, obsVars >>

\* Acquire without the wait: the thread goes on although no permit was released
AcquireWithoutWait ==
    /\ spi_pc = "acquire"
    /\ spi_pc' = "loop"
    /\ UNCHANGED << stackVars, syncVars, rtVars, loopVars, evVars, envVars, initVars, extVars, obsVars >>

\* semaphore_acquire(&_red_stack_dispatch_packet_from_spi_semaphore) (line 503)
Acquire ==
    /\ spi_pc = "acquire"
    /\ semaphore > 0
    /\ semaphore' = semaphore - 1
    /\ spi_pc' = "loop"
    /\ UNCHANGED << stackVars, _red_stack_spi_thread_running, spi_fd_open, mutex, pipe,
                    rtVars, loopVars, evVars, envVars, initVars, extVars, obsVars >>

(***************************************************************************)
(* Event thread                                                            *)
(***************************************************************************)
\* Requests the host hands to red_stack_dispatch_to_spi
RequestUid1 == MkPacket(1, 8, 1, 8, <<>>)
RequestUid2 == MkPacket(2, 9, 2, 8, << 3 >>)
RequestBroadcast == MkPacket(0, 8, 254, 8, <<>>)
RequestUnknown == MkPacket(3, 8, 1, 8, <<>>)
RequestOversize == MkPacket(1, 81, 1, 8, <<>>)
Requests == { RequestUid1, RequestUid2, RequestBroadcast, RequestUnknown,
              RequestOversize }

\* the uids a slave holds: uids[0 .. uids_num-1]
SlaveUids(is) == { slaves[is].uids[iu + 1] : iu \in 0..(slaves[is].uids_num - 1) }

\* the two loops of red_stack_spi_get_slave_for_uid from (is, iu) on
RECURSIVE SlaveForUidFrom(_, _, _)
SlaveForUidFrom(uid, is, iu) ==
    IF is >= slave_num THEN NULL
    ELSE IF iu >= slaves[is].uids_num THEN SlaveForUidFrom(uid, is + 1, 0)
    ELSE IF slaves[is].uids[iu + 1] = uid THEN << is >>
    ELSE SlaveForUidFrom(uid, is, iu + 1)

\* lookup that goes on after a match and returns the last slave with the uid
RECURSIVE LastSlaveForUidFrom(_, _, _, _)
LastSlaveForUidFrom(uid, is, iu, found) ==
    IF is >= slave_num THEN found
    ELSE IF iu >= slaves[is].uids_num THEN LastSlaveForUidFrom(uid, is + 1, 0, found)
    ELSE LastSlaveForUidFrom(uid, is, iu + 1,
             IF slaves[is].uids[iu + 1] = uid THEN << is >> ELSE found)

SlaveForUidLastMatch(uid) == LastSlaveForUidFrom(uid, 0, 0, NULL)

\* lookup that falls back to the first slave instead of NULL
SlaveForUidDefaultsToFirst(uid) ==
    IF SlaveForUidFrom(uid, 0, 0) = NULL THEN << 0 >> ELSE SlaveForUidFrom(uid, 0, 0)

\* red_stack_spi_get_slave_for_uid: the first slave in index order that has
\* the uid (as a one element sequence), NULL if there is none
red_stack_spi_get_slave_for_uid(uid) == SlaveForUidFrom(uid, 0, 0)

\* queued_request = queue_push(...); queued_request->slave = slave;
\* memcpy(&queued_request->packet, request, request->header.length)
\* (a length above sizeof(Packet) copies past both buffers; the 80 bytes of
\* the packet are what the model keeps)
QueuedRequest(s, req, id) ==
    [slave |-> s,
     packet |-> Memcpy(Zeros(SizeofPacket), 0, req, header_length(req)),
     id |-> id]

\* Push that links the new item in front of the queue
PushInFront(s) ==
    LET item == QueuedRequest(s, ev_request, Len(pushed) + 1)
    IN  /\ packet_to_spi_queue' = << item >> \o packet_to_spi_queue
        /\ pushed' = Append(pushed, item)
        /\ ev_pushes' = Append(ev_pushes, item)

\* queue_push of one work item
Push(s) ==
    LET item == QueuedRequest(s, ev_request, Len(pushed) + 1)
    IN  /\ packet_to_spi_queue' = Append(packet_to_spi_queue, item)
        /\ pushed' = Append(pushed, item)
        /\ ev_pushes' = Append(ev_pushes, item)

\* red_stack_dispatch_to_spi is entered (lines 634-641, 654-663): a broadcast
\* tests is < slave_num for is = 0, a request with a uid looks the slave up
\* and returns if there is none
DispatchToSpi ==
    /\ ev_pc = "idle"
    /\ \E req \in Requests :
         /\ ev_pushes' = <<>>
         /\ IF header_uid(req) = 0
            THEN /\ Len(pushed) + attached <= MaxPush
                 /\ ev_is' = 0
                 /\ ev_dropped' = 0
                 /\ IF 0 < slave_num
                    THEN ev_pc' = "broadcast_lock" /\ ev_request' = req
                    ELSE ev_pc' = "idle" /\ ev_request' = NULL
                 /\ UNCHANGED ev_slave
            ELSE LET found == red_stack_spi_get_slave_for_uid(header_uid(req))
                 IN  IF found = NULL
                     THEN /\ ev_pc' = "idle"
                          /\ ev_dropped' = header_uid(req)
                          /\ UNCHANGED << ev_request, ev_is, ev_slave >>
                     ELSE /\ Len(pushed) < MaxPush
                          /\ ev_request' = req
                          /\ ev_slave' = found[1]
                          /\ ev_dropped' = 0
                          /\ ev_pc' = "unicast_lock"
                          /\ UNCHANGED ev_is
    /\ UNCHANGED << stackVars, syncVars, spi_pc, rtVars, loopVars, envVars, initVars, extVars,
                    bus, registered, pushed, sent, received, delivered, staged >>

\* EventLock that does not wait for the mutex
EventLockWithoutWait ==
    /\ ev_pc \in { "broadcast_lock", "unicast_lock" }
    /\ mutex' = "event"
    /\ ev_pc' = IF ev_pc = "broadcast_lock" THEN "broadcast_push" ELSE "unicast_push"
    /\ UNCHANGED << stackVars, _red_stack_spi_thread_running, spi_fd_open, semaphore,
                    pipe, spi_pc, rtVars, loopVars, ev_request, ev_is, ev_slave,
                    envVars, initVars, extVars, obsVars >>

\* mutex_lock(&_red_stack_packet_queue_mutex) (lines 642 and 665)
EventLock ==
    /\ ev_pc \in { "broadcast_lock", "unicast_lock" }
    /\ mutex = "none"
    /\ mutex' = "event"
    /\ ev_pc' = IF ev_pc = "broadcast_lock" THEN "broadcast_push" ELSE "unicast_push"
    /\ UNCHANGED << stackVars, _red_stack_spi_thread_running, spi_fd_open, semaphore,
                    pipe, spi_pc, rtVars, loopVars, ev_request, ev_is, ev_slave,
                    envVars, initVars, extVars, obsVars >>

\* BroadcastPush whose loop leaves out the last slave
BroadcastPushStopsEarly ==
    /\ ev_pc = "broadcast_push"
    /\ Push(ev_is)
    /\ mutex' = "none"
    /\ IF ev_is + 2 < slave_num
       THEN ev_pc' = "broadcast_lock" /\ ev_is' = ev_is + 1 /\ UNCHANGED ev_request
       ELSE ev_pc' = "idle" /\ ev_is' = 0 /\ ev_request' = NULL
    /\ UNCHANGED << slaves, slave_num, packet_from_spi, _red_stack_spi_thread_running,
                    spi_fd_open, semaphore, pipe, spi_pc, rtVars, loopVars,
                    ev_slave, envVars, initVars, extVars, ev_dropped,
                    bus, registered, sent, received, delivered, staged >>

\* one round of the broadcast loop: push for slaves[is], unlock, is++ and the
\* loop test (lines 641-653)
BroadcastPush ==
    /\ ev_pc = "broadcast_push"
    /\ Push(ev_is)
    /\ mutex' = "none"
    /\ IF ev_is + 1 < slave_num
       THEN ev_pc' = "broadcast_lock" /\ ev_is' = ev_is + 1 /\ UNCHANGED ev_request
       ELSE ev_pc' = "idle" /\ ev_is' = 0 /\ ev_request' = NULL
    /\ UNCHANGED << slaves, slave_num, packet_from_spi, _red_stack_spi_thread_running,
                    spi_fd_open, semaphore, pipe, spi_pc, rtVars, loopVars,
                    ev_slave, envVars, initVars, extVars, ev_dropped,
                    bus, registered, sent, received, delivered, staged >>

\* push for the slave found by uid, unlock (lines 667-675)
UnicastPush ==
    /\ ev_pc = "unicast_push"
    /\ Push(ev_slave)
    /\ mutex' = "none"
    /\ ev_pc' = "idle"
    /\ ev_request' = NULL
    /\ ev_slave' = 0
    /\ UNCHANGED << slaves, slave_num, packet_from_spi, _red_stack_spi_thread_running,
                    spi_fd_open, semaphore, pipe, spi_pc, rtVars, loopVars,
                    ev_is, envVars, initVars, extVars, ev_dropped,
                    bus, registered, sent, received, delivered, staged >>

\* DispatchFromSpiRead that leaves the notification byte in the pipe
DispatchFromSpiReadKeepsByte ==
    /\ ev_pc = "idle"
    /\ pipe > 0
    /\ ev_pc' = "from_spi_dispatch"
    /\ UNCHANGED << stackVars, syncVars, spi_pc, rtVars, loopVars,
                    ev_request, ev_is, ev_slave, envVars, initVars, extVars, obsVars >>

\* red_stack_dispatch_from_spi is called when the pipe is readable; pipe_read
\* takes the byte or fails and the handler returns (lines 621-625)
DispatchFromSpiRead ==
    /\ ev_pc = "idle"
    /\ pipe > 0
    /\ \E ok \in BOOLEAN :
         IF ok THEN pipe' = pipe - 1 /\ ev_pc' = "from_spi_dispatch"
         ELSE UNCHANGED << pipe, ev_pc >>
    /\ UNCHANGED << stackVars, _red_stack_spi_thread_running, spi_fd_open, semaphore,
                    mutex, spi_pc, rtVars, loopVars, ev_request, ev_is, ev_slave,
                    envVars, initVars, extVars, obsVars >>

\* network_dispatch_response(&_red_stack.packet_from_spi) (line 629)
DispatchFromSpiResponse ==
    /\ ev_pc = "from_spi_dispatch"
    /\ delivered' = Append(delivered, packet_from_spi)
    /\ ev_pc' = "from_spi_release"
    /\ UNCHANGED << stackVars, syncVars, spi_pc, rtVars, loopVars,
                    ev_request, ev_is, ev_slave, envVars, initVars, extVars,
                    bus, registered, pushed, sent, received, staged, ev_pushes, ev_dropped >>

\* semaphore_release(&_red_stack_dispatch_packet_from_spi_semaphore) (line 630)
DispatchFromSpiRelease ==
    /\ ev_pc = "from_spi_release"
    /\ semaphore' = semaphore + 1
    /\ staged' = FALSE
    /\ ev_pc' = "idle"
    /\ UNCHANGED << stackVars, _red_stack_spi_thread_running, spi_fd_open, mutex, pipe,
                    spi_pc, rtVars, loopVars, ev_request, ev_is, ev_slave, envVars, initVars, extVars,
                    bus, registered, pushed, sent, received, delivered, ev_pushes, ev_dropped >>

\* red_stack_exit: if(_red_stack_spi_thread_running != 0) { ... = 0; thread_join
ExitBegin ==
    /\ ev_pc = "idle"
    /\ IF _red_stack_spi_thread_running # 0
       THEN _red_stack_spi_thread_running' = 0 /\ ev_pc' = "exit_join"
       ELSE UNCHANGED _red_stack_spi_thread_running /\ ev_pc' = "exit_close"
    /\ UNCHANGED << stackVars, spi_fd_open, semaphore, mutex, pipe, spi_pc, rtVars,
                    loopVars, ev_request, ev_is, ev_slave, envVars, initVars, extVars, obsVars >>

\* thread_join returns once the SPI thread has left red_stack_spi_thread
ExitJoin ==
    /\ ev_pc = "exit_join"
    /\ spi_pc = "exited"
    /\ ev_pc' = "exit_close"
    /\ UNCHANGED << stackVars, syncVars, spi_pc, rtVars, loopVars,
                    ev_request, ev_is, ev_slave, envVars, initVars, extVars, obsVars >>

\* close(_red_stack_spi_fd); afterwards the event loop runs no handler
ExitClose ==
    /\ ev_pc = "exit_close"
    /\ spi_fd_open' = FALSE
    /\ ev_pc' = "exit_done"
    /\ UNCHANGED << stackVars, _red_stack_spi_thread_running, semaphore, mutex, pipe,
                    spi_pc, rtVars, loopVars, ev_request, ev_is, ev_slave,
                    envVars, initVars, extVars, obsVars >>

(***************************************************************************)
(* red_stack_init and red_stack_init_spi (brickd main thread)              *)
(***************************************************************************)

programVars == << stackVars, syncVars, spi_pc, rtVars, loopVars, evVars, envVars,
                 obsVars, extVars >>

\* State at the call of red_stack_init: the statics are zero, nothing has
\* been created and the SPI thread does not exist yet.
InitBoot ==
    /\ slaves = [i \in Slots |->
                    [status |-> RED_STACK_SLAVE_STATUS_ABSENT,
                     uids |-> Zeros(PACKET_STACK_ENUMERATE_MAX_UIDS),
                     uids_num |-> 0]]
    /\ slave_num = 0
    /\ packet_from_spi = Zeros(SizeofPacket)
    /\ packet_to_spi_queue = <<>>
    /\ _red_stack_spi_thread_running = 0
    /\ spi_fd_open = FALSE
    /\ semaphore = 0
    /\ mutex = "none"
    /\ pipe = 0
    /\ spi_pc = "not_created"
    /\ stack_address = 0 /\ tries = 0 /\ packet = Zeros(SizeofPacket) /\ uid_i = 0
    /\ stack_address_cycle = 0 /\ packet_to_spi = NULL /\ request = NULL
    /\ slave = 0 /\ ret = 0
    /\ ev_pc = "idle" /\ ev_request = NULL /\ ev_is = 0 /\ ev_slave = 0
    /\ bus = NoXfer
    /\ registered = <<>> /\ pushed = <<>> /\ sent = <<>>
    /\ received = <<>> /\ delivered = <<>> /\ staged = FALSE /\ ev_pushes = <<>>
    /\ ev_dropped = 0
    /\ attached \in 0..MaxPresent
    /\ init_pc = "stack_create" /\ phase = 0 /\ init_ret = 0
    /\ acquired = {} /\ released = {}
    /\ InitExtension

\* a call that creates resource res: on success control goes to next (with
\* phase set to the value the code assigns after the call), on failure to
\* the cleanup label
InitCall(at, res, next, new_phase) ==
    /\ init_pc = at
    /\ \E failed \in BOOLEAN :
          IF failed
          THEN init_pc' = "cleanup" /\ UNCHANGED << acquired, phase >>
          ELSE /\ init_pc' = next
               /\ acquired' = acquired \cup { res }
               /\ phase' = new_phase
    /\ UNCHANGED << init_ret, released >>

StackCreate ==
    /\ InitCall("stack_create", "base_stack", "hardware_add_stack", 1)
    /\ UNCHANGED programVars

HardwareAddStack ==
    /\ InitCall("hardware_add_stack", "hardware_stack", "pipe_create", 2)
    /\ UNCHANGED programVars

PipeCreate ==
    /\ InitCall("pipe_create", "notification_pipe", "event_add_source", 3)
    /\ UNCHANGED programVars

EventAddSource ==
    /\ InitCall("event_add_source", "event_source", "queue_create", phase)
    /\ UNCHANGED programVars

\* red_stack_init_spi; its return -1 is the goto cleanup of line 719
InitSpiQueueCreate ==
    /\ InitCall("queue_create", "packet_to_spi_queue", "gpio_init", phase)
    /\ UNCHANGED programVars

InitSpiGpioInit ==
    /\ InitCall("gpio_init", "gpio", "init_slaves", phase)
    /\ UNCHANGED programVars

InitSpiSlaves ==
    /\ init_pc = "init_slaves"
    /\ slaves' = [i \in Slots |->
                    [status |-> RED_STACK_SLAVE_STATUS_ABSENT,
                     uids |-> Zeros(PACKET_STACK_ENUMERATE_MAX_UIDS),
                     uids_num |-> 0]]
    /\ init_pc' = "open"
    /\ UNCHANGED << slave_num, packet_from_spi, packet_to_spi_queue, syncVars, spi_pc,
                    rtVars, loopVars, evVars, envVars, obsVars, extVars, phase, init_ret,
                    acquired, released >>

InitSpiOpen ==
    /\ InitCall("open", "spi_fd", "ioctl_mode", phase)
    /\ spi_fd_open' = (init_pc' = "ioctl_mode")
    /\ UNCHANGED << stackVars, _red_stack_spi_thread_running, semaphore, mutex, pipe,
                    spi_pc, rtVars, loopVars, evVars, envVars, obsVars, extVars >>

IoctlOrder == << "ioctl_mode", "ioctl_max_speed_hz", "ioctl_bits_per_word",
                "ioctl_lsb_first", "semaphore_create" >>

\* the four configuration ioctls; a failing one returns -1
InitSpiIoctl ==
    /\ \E k \in 1..4 :
          /\ init_pc = IoctlOrder[k]
          /\ \E failed \in BOOLEAN :
                init_pc' = IF failed THEN "cleanup" ELSE IoctlOrder[k + 1]
    /\ UNCHANGED << programVars, phase, init_ret, acquired, released >>

InitSpiSemaphoreCreate ==
    /\ InitCall("semaphore_create", "semaphore", "mutex_create", phase)
    /\ semaphore' = 0
    /\ UNCHANGED << stackVars, _red_stack_spi_thread_running, spi_fd_open, mutex, pipe,
                    spi_pc, rtVars, loopVars, evVars, envVars, obsVars, extVars >>

InitSpiMutexCreate ==
    /\ init_pc = "mutex_create"
    /\ mutex' = "none"
    /\ acquired' = acquired \cup { "mutex" }
    /\ init_pc' = "thread_create"
    /\ UNCHANGED << stackVars, _red_stack_spi_thread_running, spi_fd_open, semaphore,
                    pipe, spi_pc, rtVars, loopVars, evVars, envVars, obsVars, extVars,
                    phase, init_ret, released >>

\* thread_create starts red_stack_spi_thread; red_stack_init_spi returns 0
\* and red_stack_init sets phase = 4
InitSpiThreadCreate ==
    /\ init_pc = "thread_create"
    /\ spi_pc' = "rt_while"
    /\ acquired' = acquired \cup { "spi_thread" }
    /\ phase' = 4
    /\ init_pc' = "cleanup"
    /\ UNCHANGED << stackVars, syncVars, rtVars, loopVars, evVars, envVars, obsVars,
                    extVars, init_ret, released >>

\* what the switch at the cleanup label passes to a destroy or remove call
CleanupReleases(ph) ==
    (IF ph = 3 THEN { "event_source" } ELSE {})
        \cup (IF ph \in 2..3 THEN { "notification_pipe" } ELSE {})
        \cup (IF ph \in 1..3 THEN { "base_stack" } ELSE {})

\* the cleanup label: the switch without breaks, then the return
Cleanup ==
    /\ init_pc = "cleanup"
    /\ released' = released \cup CleanupReleases(phase)
    /\ init_ret' = IF phase = 4 THEN 0 ELSE -1
    /\ init_pc' = "done"
    /\ UNCHANGED << programVars, phase, acquired >>

(***************************************************************************)
(* red_extension_init and red_extension_exit (brickd main thread)          *)
(***************************************************************************)
engineVars == << stackVars, syncVars, spi_pc, rtVars, loopVars, evVars, envVars,
                obsVars, initVars >>

\* red_extension_init up to the detection loop: red_ethernet_extension_rmmod,
\* then the pins of extension_startup for both positions (lines 217-231)
ExtInitBegin ==
    /\ ext_pc = "ext_init"
    /\ pins' = [i \in Positions |-> Append(pins[i], "startup")]
    /\ ext_i' = 0
    /\ ext_pc' = "ext_detect"
    /\ UNCHANGED << engineVars, ext_ret, base_config, _red_extension_type, i2c_held,
                    eeprom, ext_inits, ext_exits >>

\* what one pass of the detection loop can meet: i2c_eeprom_init works or
\* not, the read of the type fails (NoType) or gives a type (one of the enum
\* or a value outside it), the read of the type-specific configuration works
\* or not
DetectInputs ==
    [init_ok : BOOLEAN,
     type : { NoType } \cup EXTENSION_TYPE_NONE..(EXTENSION_TYPE_ETHERNET + 1),
     config_ok : BOOLEAN]

Supported(type) == type \in { EXTENSION_TYPE_RS485, EXTENSION_TYPE_ETHERNET }

\* base_config[i].type after the pass: NONE is assigned first (line 239) and
\* the type that was read replaces it (line 253); no continue resets it
DetectedType(in) == IF in.type = NoType THEN EXTENSION_TYPE_NONE ELSE in.type

\* one pass of the detection loop (lines 234-292): the continue statements of
\* lines 250, 261 and 266 leave the loop body before i2c_eeprom_release,
\* the switch releases the EEPROM after the configuration was read
ExtDetect ==
    /\ ext_pc = "ext_detect"
    /\ \E in \in DetectInputs :
          /\ in.type = NoType \/ ~Supported(in.type) => in.config_ok
          /\ ~in.init_ok => in.type = NoType
          /\ IF ~in.init_ok
             THEN /\ base_config' = [base_config EXCEPT ![ext_i] =
                                      [extension |-> ext_i, type |-> EXTENSION_TYPE_NONE]]
                  /\ ext_ret' = -1
                  /\ ext_pc' = "ext_returned"
                  /\ UNCHANGED << ext_i, i2c_held, eeprom >>
             ELSE /\ base_config' = [base_config EXCEPT ![ext_i] =
                                      [extension |-> ext_i, type |-> DetectedType(in)]]
                  /\ i2c_held' = IF Supported(in.type) THEN i2c_held
                                 ELSE i2c_held \cup { ext_i }
                  /\ eeprom' = [eeprom EXCEPT ![ext_i] =
                                  [type |-> in.type,
                                   config |-> IF ~Supported(in.type) THEN "unread"
                                              ELSE IF in.config_ok THEN "ok"
                                              ELSE "failed"]]
                  /\ IF ext_i + 1 < EXTENSION_NUM_MAX
                     THEN ext_i' = ext_i + 1 /\ UNCHANGED ext_pc
                     ELSE ext_i' = 0 /\ ext_pc' = "ext_configure"
                  /\ UNCHANGED ext_ret
    /\ UNCHANGED << engineVars, _red_extension_type, pins, ext_inits, ext_exits >>

\* the name of the pin plan of a type: extension_rs485_pin_config or
\* extension_ethernet_pin_config
PinPlan(type) == IF type = EXTENSION_TYPE_RS485 THEN "rs485" ELSE "ethernet"

\* one pass of the second loop (lines 295-325): for RS485 and Ethernet the
\* pins are configured and the init function is called; _red_extension_type
\* is set when the init function did not fail.  After the last pass
\* red_extension_init returns 0.
ExtConfigure ==
    /\ ext_pc = "ext_configure"
    /\ LET type == base_config[ext_i].type IN
          IF Supported(type)
          THEN /\ pins' = [pins EXCEPT ![ext_i] = Append(@, PinPlan(type))]
               /\ ext_inits' = [ext_inits EXCEPT ![ext_i] = type]
               /\ \E failed \in BOOLEAN :
                     _red_extension_type' =
                         IF failed THEN _red_extension_type
                         ELSE [_red_extension_type EXCEPT ![ext_i] = type]
          ELSE UNCHANGED << pins, ext_inits, _red_extension_type >>
    /\ IF ext_i + 1 < EXTENSION_NUM_MAX
       THEN ext_i' = ext_i + 1 /\ UNCHANGED << ext_pc, ext_ret >>
       ELSE ext_i' = 0 /\ ext_ret' = 0 /\ ext_pc' = "ext_returned"
    /\ UNCHANGED << engineVars, base_config, i2c_held, eeprom, ext_exits >>

\* one pass of the loop of red_extension_exit (lines 330-349), called after
\* red_extension_init has returned
ExtExit ==
    /\ ext_pc \in { "ext_returned", "ext_exit" }
    /\ LET i == IF ext_pc = "ext_returned" THEN 0 ELSE ext_i IN
          /\ ext_exits' = [ext_exits EXCEPT ![i] =
                              IF Supported(_red_extension_type[i])
                              THEN _red_extension_type[i] ELSE @]
          /\ _red_extension_type' = [_red_extension_type EXCEPT ![i] = EXTENSION_TYPE_NONE]
          /\ IF i + 1 < EXTENSION_NUM_MAX
             THEN ext_i' = i + 1 /\ ext_pc' = "ext_exit"
             ELSE ext_i' = 0 /\ ext_pc' = "ext_exited"
    /\ UNCHANGED << engineVars, ext_ret, base_config, i2c_held, eeprom, pins, ext_inits >>

(***************************************************************************)
(* Specifications                                                          *)
(***************************************************************************)

Next ==
    \/ RtWhile \/ RtSend \/ RtRecv \/ RtAbsent \/ RtUids \/ RtDone
    \/ ThreadStart \/ LoopTop \/ SpiLock \/ Peek \/ Transceive \/ Pop
    \/ Notify \/ Acquire
    \/ DispatchToSpi \/ EventLock \/ BroadcastPush \/ UnicastPush
    \/ DispatchFromSpiRead \/ DispatchFromSpiResponse \/ DispatchFromSpiRelease
    \/ ExitBegin \/ ExitJoin \/ ExitClose

Spec == Init /\ [][Next]_vars

NextDisc == RtWhile \/ RtSend \/ RtRecv \/ RtAbsent \/ RtUids \/ RtDone

SpecDisc == InitDisc /\ [][NextDisc]_vars

NextInit ==
    \/ StackCreate \/ HardwareAddStack \/ PipeCreate \/ EventAddSource
    \/ InitSpiQueueCreate \/ InitSpiGpioInit \/ InitSpiSlaves \/ InitSpiOpen
    \/ InitSpiIoctl \/ InitSpiSemaphoreCreate \/ InitSpiMutexCreate
    \/ InitSpiThreadCreate \/ Cleanup

\* red_stack_init from its call on, with the discovery of the thread it starts
SpecInit == InitBoot /\ [][NextInit \/ NextDisc]_vars

\* Spec with a polling thread that is scheduled: clock_nanosleep returns and
\* the loop test of line 453 is made whenever the thread is at the end of a
\* tick
SpecLive == Spec /\ WF_vars(LoopTop)

NextExt == ExtInitBegin \/ ExtDetect \/ ExtConfigure \/ ExtExit

\* red_extension_init followed by red_extension_exit, the engine at rest
SpecExt == Init /\ [][NextExt]_vars

(***************************************************************************)
(* Properties                                                              *)
(***************************************************************************)
IsPrefix(a, b) == Len(a) <= Len(b) /\ \A i \in 1..Len(a) : a[i] = b[i]
Range(f) == { f[i] : i \in DOMAIN f }

\* push numbers of the work items for slave s, in push order
IdsFor(s) == SelectSeq([i \in 1..Len(pushed) |-> i], LAMBDA i : pushed[i].slave = s)
\* push numbers of the requests sent to slave s, in bus order
SentFor(s) == SelectSeq(sent, LAMBDA i : i \in 1..Len(pushed) /\ pushed[i].slave = s)

\* the payload bytes of a TX frame
TxPayload(tx) == SubSeq(tx, 3, tx[2] - 2)

\* C1: from the moment a received packet is staged until the event thread has
\* released the semaphore the SPI thread starts no exchange and packet_from_spi
\* keeps its content, and never more than one received packet is undelivered.
C1_HandOffBackPressure ==
    [][ /\ staged => (bus' = bus /\ packet_from_spi' = packet_from_spi)
        /\ Len(received') <= Len(delivered') + 1 ]_vars

\* a packet is staged, the event thread has passed it on and the SPI thread
\* still waits for the semaphore
C1_Witness ==
    /\ staged
    /\ spi_pc = "acquire"
    /\ ev_pc = "from_spi_release"
    /\ Len(delivered) = Len(received)

\* C2: for every slave the requests sent to it are, in bus order, the first
\* work items pushed for it in push order; a request on the bus is never
\* ahead of an unsent earlier work item of its slave and carries the bytes of
\* its work item.
C2_PerSlaveFifo ==
    /\ \A s \in Slots : IsPrefix(SentFor(s), IdsFor(s))
    /\ bus.id # 0 =>
         /\ bus.id \in 1..Len(pushed)
         /\ pushed[bus.id].slave = bus.slave
         /\ \A i \in 1..(bus.id - 1) : pushed[i].slave = bus.slave => i \in Range(sent)
         /\ TxPayload(bus.tx) =
                SubSeq(pushed[bus.id].packet, 1, header_length(pushed[bus.id].packet))

\* two requests have been sent to one slave
C2_Witness == \E s \in Slots : Len(SentFor(s)) >= 2

BusyCall ==
    /\ spi_pc = "transceive"
    /\ spi_pc' # "transceive"
    /\ request # NULL
    /\ slaves[slave].status = RED_STACK_SLAVE_STATUS_AVAILABLE_BUSY

\* the exchange of this step is a poll-only frame to the slave of the request
PollOnlyExchange ==
    /\ bus' # NoXfer
    /\ bus'.slave = slave
    /\ bus'.tx[2] = RED_STACK_SPI_PACKET_EMPTY_SIZE
    /\ bus'.tx = SlaveFrame(<<>>, 0)

\* the item peeked for a tick stays the head of the queue as long as it was
\* not sent, and the next peek takes it again
UnsentItemIsRetried ==
    /\ (packet_to_spi' # NULL /\ packet_to_spi'.id \notin Range(sent'))
         => (packet_to_spi_queue' # <<>> /\ Head(packet_to_spi_queue') = packet_to_spi')
    /\ (spi_pc = "peek" /\ spi_pc' # "peek"
        /\ packet_to_spi # NULL /\ packet_to_spi.id \notin Range(sent))
         => (packet_to_spi' = packet_to_spi /\ request' = packet_to_spi.packet
             /\ slave' = packet_to_spi.slave)

C5_OversizeDropped ==
    /\ bus.id # 0 => header_length(pushed[bus.id].packet) <= SizeofPacket
    /\ ( /\ spi_pc = "loop"
         /\ packet_to_spi # NULL
         /\ header_length(packet_to_spi.packet) > SizeofPacket
         /\ ret = RED_STACK_TRANSCEIVE_RESULT_SEND_ERROR )
       => ( \/ packet_to_spi_queue = <<>>
            \/ Head(packet_to_spi_queue).id # packet_to_spi.id )

\* the present slaves that hold a uid
HoldersOf(uid) ==
    { s \in Slots : s < slave_num
                    /\ \E iu \in 1..slaves[s].uids_num : slaves[s].uids[iu] = uid }

\* the copy of a request in a work item: its first header.length bytes
IsCopyOf(item, req) ==
    LET n == IF header_length(req) < SizeofPacket THEN header_length(req) ELSE SizeofPacket
    IN  /\ SubSeq(item.packet, 1, n) = SubSeq(req, 1, n)
        /\ header_uid(item.packet) = header_uid(req)

\* C6: a request with a uid that a present slave holds makes the call push
\* one work item, for the lowest present slave holding the uid, with a copy of
\* the request, at the tail of the queue; it is not discarded.
C6_RoutingByUid ==
    [][ /\ (ev_pc = "idle" /\ ev_pc' = "unicast_lock") =>
              /\ header_uid(ev_request') # 0
              /\ HoldersOf(header_uid(ev_request')) # {}
              /\ \A s \in HoldersOf(header_uid(ev_request')) : ev_slave' <= s
              /\ ev_slave' \in HoldersOf(header_uid(ev_request'))
              /\ ev_pushes' = <<>>
        /\ (ev_pc = "unicast_push" /\ ev_pc' # "unicast_push") =>
              /\ Len(pushed') = Len(pushed) + 1
              /\ packet_to_spi_queue' = Append(packet_to_spi_queue, pushed'[Len(pushed')])
              /\ ev_pushes' = << pushed'[Len(pushed')] >>
              /\ pushed'[Len(pushed')].slave = ev_slave
              /\ IsCopyOf(pushed'[Len(pushed')], ev_request)
              /\ ev_pc' = "idle"
        /\ (ev_dropped' # 0 /\ ev_dropped' # ev_dropped) => HoldersOf(ev_dropped') = {}
      ]_vars

\* uid 1 is held by slaves 0 and 1; the call has pushed one item, for slave 0
C6_Witness ==
    /\ ev_pc = "idle"
    /\ slave_num = 2
    /\ HoldersOf(1) = { 0, 1 }
    /\ Len(ev_pushes) = 1
    /\ header_uid(ev_pushes[1].packet) = 1
    /\ ev_pushes[1].slave = 0

\* every work item ever pushed for a uid went to a slave that holds the uid
PushedToHolders ==
    \A i \in 1..Len(pushed) :
        header_uid(pushed[i].packet) # 0
            => pushed[i].slave \in HoldersOf(header_uid(pushed[i].packet))

\* C7: a call with a uid that no present slave holds changes neither the
\* queue nor the slave table, and no work item is ever pushed for a uid that
\* its slave does not hold.
C7_RoutingError ==
    [][ /\ (ev_dropped' # 0 /\ ev_dropped' # ev_dropped) =>
              /\ packet_to_spi_queue' = packet_to_spi_queue
              /\ pushed' = pushed
              /\ slaves' = slaves
              /\ slave_num' = slave_num
              /\ ev_pc' = "idle"
        /\ (ev_pc = "idle" /\ ev_pc' = "unicast_lock")
              => HoldersOf(header_uid(ev_request')) # {}
        /\ PushedToHolders' ]_vars

\* after discovery found slaves a request for uid 3 was discarded
C7_Witness ==
    /\ ev_dropped = 3
    /\ slave_num > 0
    /\ HoldersOf(3) = {}
    /\ ev_pushes = <<>>
    /\ ev_pc = "idle"

\* C8: a broadcast pushes one work item per present slave, for the slaves
\* 0, 1, ... in this order, each with a copy of the request, and nothing when
\* slave_num is 0.
C8_Broadcast ==
    /\ (ev_pushes # <<>> /\ header_uid(ev_pushes[1].packet) = 0) =>
          /\ \A i \in 1..Len(ev_pushes) :
                /\ ev_pushes[i].slave = i - 1
                /\ IsCopyOf(ev_pushes[i], RequestBroadcast)
                /\ ev_pushes[i] = pushed[Len(pushed) - Len(ev_pushes) + i]
          /\ Len(ev_pushes) <= slave_num
          /\ ev_pc = "idle" => Len(ev_pushes) = slave_num
    /\ ev_pc \in { "broadcast_lock", "broadcast_push" } =>
          /\ header_uid(ev_request) = 0
          /\ Len(ev_pushes) = ev_is
          /\ ev_is < slave_num
    /\ slave_num = 0 => pushed = <<>>

\* a broadcast to two present slaves has returned
C8_Witness ==
    /\ ev_pc = "idle"
    /\ slave_num = 2
    /\ Len(ev_pushes) = 2
    /\ header_uid(ev_pushes[1].packet) = 0

\* C9: when red_stack_spi_create_routing_table has returned, the slaves below
\* slave_num are AVAILABLE or AVAILABLE_BUSY and the slaves from slave_num on
\* are ABSENT, so slave_num is the index of the first slave that failed, or 8.
C9_DiscoveryPostCondition ==
    spi_pc = "thread_start" =>
        /\ slave_num \in 0..RED_STACK_SPI_MAX_SLAVES
        /\ \A i \in Slots :
              IF i < slave_num
              THEN slaves[i].status \in { RED_STACK_SLAVE_STATUS_AVAILABLE,
                                          RED_STACK_SLAVE_STATUS_AVAILABLE_BUSY }
              ELSE slaves[i].status = RED_STACK_SLAVE_STATUS_ABSENT

\* discovery has returned after slave 5 failed, with a busy slave among the
\* slaves found
C9_Witness ==
    /\ spi_pc = "thread_start"
    /\ slave_num = 5
    /\ slaves[5].status = RED_STACK_SLAVE_STATUS_ABSENT
    /\ slaves[2].status = RED_STACK_SLAVE_STATUS_AVAILABLE_BUSY

\* C10: every exchange on the bus goes to a slave that is not ABSENT, no slave
\* at or below it is ABSENT at that time (so none at or above a slave that
\* failed discovery is addressed), and in polling it is below slave_num.
C10_AbsentNeverSelected ==
    [][ (bus' # NoXfer /\ bus' # bus) =>
            /\ bus'.status # RED_STACK_SLAVE_STATUS_ABSENT
            /\ slaves[bus'.slave].status # RED_STACK_SLAVE_STATUS_ABSENT
            /\ \A j \in Slots :
                  j <= bus'.slave => slaves'[j].status # RED_STACK_SLAVE_STATUS_ABSENT
            /\ spi_pc = "transceive" => bus'.slave < slave_num ]_vars

\* polling has wrapped around: the last present slave was polled while the
\* slot above it is ABSENT
C10_Witness ==
    /\ spi_pc = "loop"
    /\ bus # NoXfer
    /\ request = NULL
    /\ slave_num = 1
    /\ bus.slave = 0
    /\ stack_address_cycle = 0
    /\ slaves[1].status = RED_STACK_SLAVE_STATUS_ABSENT
    /\ _red_stack_spi_thread_running = 1

\* the step is an attempt of the send loop of discovery
SendAttempt == spi_pc = "rt_send" /\ (tries' = tries + 1 \/ spi_pc' = "rt_recv")

\* the step is an attempt of the receive loop of discovery
RecvAttempt == spi_pc = "rt_recv" /\ (tries' = tries + 1 \/ spi_pc' = "rt_uids")

\* what is left of discovery, in steps: the slots still to do, and within a
\* slot the attempts left in each phase and the uids left to copy
DiscoveryRank ==
    IF spi_pc = "rt_while" THEN (RED_STACK_SPI_MAX_SLAVES - stack_address) * 40 + 39
    ELSE IF spi_pc = "rt_send"
    THEN (RED_STACK_SPI_MAX_SLAVES - stack_address) * 40 + 38 - tries
    ELSE IF spi_pc = "rt_recv"
    THEN (RED_STACK_SPI_MAX_SLAVES - stack_address) * 40 + 27 - tries
    ELSE IF spi_pc = "rt_uids"
    THEN (RED_STACK_SPI_MAX_SLAVES - stack_address) * 40
         + PACKET_STACK_ENUMERATE_MAX_UIDS - uid_i
    ELSE IF spi_pc = "rt_done" THEN 1
    ELSE 0

\* C11: each phase of discovery makes at most 10 exchanges per slot (the
\* enumerate request in the send phase, poll-only frames in the receive
\* phase), a slot becomes ABSENT exactly when a phase has used its 10
\* attempts, a slot that only ever answers all-zero frames does not pass and
\* ends ABSENT with slave_num at its index, and discovery terminates: every
\* step of it lowers a rank that cannot fall below 0, and in each loop either
\* a further attempt or the way out is open.
C11_DiscoveryBounded ==
    [][    /\ DiscoveryRank' \in 0..DiscoveryRank
           /\ spi_pc' # spi_pc \/ rtVars' # rtVars => DiscoveryRank' < DiscoveryRank
           /\ tries' <= RED_STACK_SPI_ROUTING_TRIES
           /\ SendAttempt =>
                 /\ tries < RED_STACK_SPI_ROUTING_TRIES
                 /\ bus'.slave = stack_address
                 /\ TxPayload(bus'.tx) = SubSeq(StackEnumerateRequest, 1, SizeofPacketHeader)
                 /\ spi_pc' = "rt_recv" <=> bus'.length_send = RED_STACK_SPI_PACKET_SIZE
           /\ RecvAttempt =>
                 /\ tries < RED_STACK_SPI_ROUTING_TRIES
                 /\ bus'.slave = stack_address
                 /\ bus'.tx[2] = RED_STACK_SPI_PACKET_EMPTY_SIZE
                 /\ spi_pc' = "rt_uids" =>
                       /\ bus'.length_send = RED_STACK_SPI_PACKET_SIZE
                       /\ bus'.rx[1] = RED_STACK_SPI_PREAMBLE_VALUE
           /\ \A i \in Slots :
                 ( /\ slaves[i].status # RED_STACK_SLAVE_STATUS_ABSENT
                   /\ slaves'[i].status = RED_STACK_SLAVE_STATUS_ABSENT )
                 => ( /\ i = stack_address
                      /\ spi_pc \in { "rt_send", "rt_recv" }
                      /\ tries = RED_STACK_SPI_ROUTING_TRIES )
           /\ ( /\ spi_pc \in { "rt_send", "rt_recv" }
                /\ tries = RED_STACK_SPI_ROUTING_TRIES
                /\ spi_pc' # spi_pc )
              => ( /\ slaves'[stack_address].status = RED_STACK_SLAVE_STATUS_ABSENT
                   /\ spi_pc' = "rt_done" )
           /\ spi_pc' = "rt_uids" => ~bus'.idle_only
           /\ (spi_pc' = "thread_start" /\ bus'.idle_only) =>
                 /\ slave_num' = bus'.slave
                 /\ slaves'[bus'.slave].status = RED_STACK_SLAVE_STATUS_ABSENT
         ]_vars

\* slot 1 answered its enumerate request and ten polls with all-zero frames:
\* discovery is over with slave_num = 1
C11_Witness ==
    /\ spi_pc = "thread_start"
    /\ bus.idle_only
    /\ bus.slave = 1
    /\ tries = RED_STACK_SPI_ROUTING_TRIES
    /\ slave_num = 1
    /\ slaves[1].status = RED_STACK_SLAVE_STATUS_ABSENT

\* the uids[] a received frame carries: the complete 4 byte groups of its
\* payload after the packet header, at most PACKET_STACK_ENUMERATE_MAX_UIDS
ResponseUids(rx) ==
    LET n == rx[2] - RED_STACK_SPI_PACKET_EMPTY_SIZE - SizeofPacketHeader
        groups == IF n \div 4 < PACKET_STACK_ENUMERATE_MAX_UIDS
                  THEN n \div 4 ELSE PACKET_STACK_ENUMERATE_MAX_UIDS
        o(k) == 2 + SizeofPacketHeader + 4 * (k - 1)
    IN  [k \in 1..groups |-> rx[o(k) + 1] + 256 * rx[o(k) + 2] + 65536 * rx[o(k) + 3]
                             + 16777216 * rx[o(k) + 4]]

\* the longest prefix of a list without a zero
LeadingNonZero(list) ==
    LET zeros == { k \in 1..Len(list) : list[k] = 0 }
    IN  IF zeros = {} THEN list
        ELSE SubSeq(list, 1, (CHOOSE k \in zeros : \A j \in zeros : k <= j) - 1)

\* uids[0 .. uids_num) of a slave
StoredUids(i) == SubSeq(slaves[i].uids, 1, slaves[i].uids_num)

\* the uids stored for the slots below n, slot after slot
RECURSIVE StoredUidsBelow(_)
StoredUidsBelow(n) == IF n = 0 THEN <<>> ELSE StoredUidsBelow(n - 1) \o StoredUids(n - 1)

\* C12: the uids stored for a slot that has passed discovery are the leading
\* non-zero uids of the response it was enumerated with, at most 16 and none
\* of them 0, and stack_add_uid has been called once for each stored uid, in
\* the order in which they were stored.
C12_UidIngestion ==
    /\ (spi_pc = "rt_while" /\ stack_address > 0) =>
          /\ bus.slave = stack_address - 1
          /\ StoredUids(stack_address - 1) = LeadingNonZero(ResponseUids(bus.rx))
    /\ \A i \in Slots :
          /\ slaves[i].uids_num <= PACKET_STACK_ENUMERATE_MAX_UIDS
          /\ \A k \in 1..slaves[i].uids_num : slaves[i].uids[k] # 0
    /\ spi_pc \in { "rt_while", "rt_send", "rt_recv", "rt_done", "thread_start" } =>
          registered = StoredUidsBelow(stack_address)
    /\ spi_pc = "rt_uids" =>
          registered = StoredUidsBelow(stack_address)
                       \o SubSeq(slaves[stack_address].uids, 1, uid_i)

\* C13: in every state, every uid registered with stack_add_uid is non-zero
\* and red_stack_spi_get_slave_for_uid finds a slave for it that has the uid,
\* also between the registration and the end of discovery.
C13_RegisteredUidsRoutable ==
    \A k \in 1..Len(registered) :
        /\ registered[k] # 0
        /\ red_stack_spi_get_slave_for_uid(registered[k]) # NULL
        /\ registered[k] \in SlaveUids(red_stack_spi_get_slave_for_uid(registered[k])[1])

\* C14: every work item in the outbound queue is for a slave below slave_num
\* whose status is AVAILABLE or AVAILABLE_BUSY.
C14_QueueRefersToPresent ==
    \A k \in 1..Len(packet_to_spi_queue) :
        /\ packet_to_spi_queue[k].slave < slave_num
        /\ slaves[packet_to_spi_queue[k].slave].status
               \in { RED_STACK_SLAVE_STATUS_AVAILABLE, RED_STACK_SLAVE_STATUS_AVAILABLE_BUSY }

\* two items are queued while polling runs, the first for a busy slave, and
\* the slot above the present slaves is ABSENT
C14_Witness ==
    /\ Len(packet_to_spi_queue) = 2
    /\ slaves[packet_to_spi_queue[1].slave].status = RED_STACK_SLAVE_STATUS_AVAILABLE_BUSY
    /\ slave_num < RED_STACK_SPI_MAX_SLAVES
    /\ slaves[slave_num].status = RED_STACK_SLAVE_STATUS_ABSENT
    /\ _red_stack_spi_thread_running = 1
    /\ spi_pc = "transceive"

\* a frame as build makes it: preamble, a length of 4 to 84, payload, info
\* byte, the Pearson hash of all bytes before it, and zeros behind
IsBuiltFrame(f) ==
    /\ f[1] = RED_STACK_SPI_PREAMBLE_VALUE
    /\ f[2] \in RED_STACK_SPI_PACKET_EMPTY_SIZE..RED_STACK_SPI_PACKET_SIZE
    /\ f[f[2]] = red_stack_spi_calculate_pearson_hash(f, f[2] - 1)
    /\ \A i \in (f[2] + 1)..RED_STACK_SPI_PACKET_SIZE : f[i] = 0

\* payload and info byte of a built frame
FramePayload(f) == SubSeq(f, 3, f[2] - 2)
FrameInfo(f) == f[f[2] - 1]

\* the step is an exchange of the polling loop
PollingExchange ==
    /\ spi_pc = "transceive"
    /\ spi_pc' # "transceive"
    /\ bus' # NoXfer

\* C15: a built frame that comes back in an 84 byte transfer is parsed as Ok
\* with the same payload and busy bit: with a payload it is DATA_RECEIVED
\* and the payload is in packet_from_spi, without one (length = 4) READ is
\* NONE and not ERROR, and the status of the slave follows the busy bit.
C15_FrameRoundTrip ==
    [][ ( /\ PollingExchange
          /\ bus'.length_send = RED_STACK_SPI_PACKET_SIZE
          /\ IsBuiltFrame(bus'.rx) )
        => /\ ReadField(ret') # RED_STACK_TRANSCEIVE_RESULT_READ_ERROR
           /\ slaves'[bus'.slave].status =
                 IF BitAnd(FrameInfo(bus'.rx), RED_STACK_SPI_INFO_BUSY) # 0
                 THEN RED_STACK_SLAVE_STATUS_AVAILABLE_BUSY
                 ELSE RED_STACK_SLAVE_STATUS_AVAILABLE
           /\ IF FramePayload(bus'.rx) = <<>>
              THEN /\ ReadField(ret') = RED_STACK_TRANSCEIVE_RESULT_READ_NONE
                   /\ ~DataReceived(ret')
              ELSE /\ ReadField(ret') = RED_STACK_TRANSCEIVE_RESULT_READ_OK
                   /\ DataReceived(ret')
                   /\ SubSeq(packet_from_spi', 1, Len(FramePayload(bus'.rx)))
                         = FramePayload(bus'.rx)
      ]_vars

\* the step offers a request of at most sizeof(Packet) bytes to a slave that
\* is AVAILABLE
SendCall ==
    /\ spi_pc = "transceive"
    /\ spi_pc' # "transceive"
    /\ request # NULL
    /\ header_length(request) <= SizeofPacket
    /\ slaves[slave].status = RED_STACK_SLAVE_STATUS_AVAILABLE

\* C16: every frame handed to the SPI transfer, in discovery and in polling,
\* starts with 0xAA, has a length byte of 4 to 84, info byte 0, the Pearson
\* hash of the bytes before it as checksum and zeros behind; a request of
\* length L <= 80 for an AVAILABLE slave goes out with length L + 4 and the L
\* bytes of the request as payload.
C16_EmittedFrameWellFormed ==
    [][ /\ bus' # NoXfer =>
              /\ Len(bus'.tx) = RED_STACK_SPI_PACKET_SIZE
              /\ IsBuiltFrame(bus'.tx)
              /\ FrameInfo(bus'.tx) = 0
        /\ SendCall =>
              /\ bus' # NoXfer
              /\ bus'.slave = slave
              /\ bus'.tx[2] = header_length(request) + RED_STACK_SPI_PACKET_EMPTY_SIZE
              /\ FramePayload(bus'.tx) = SubSeq(request, 1, header_length(request))
        /\ SendAttempt =>
              /\ bus'.tx[2] = SizeofPacketHeader + RED_STACK_SPI_PACKET_EMPTY_SIZE
              /\ FramePayload(bus'.tx) = SubSeq(StackEnumerateRequest, 1, SizeofPacketHeader)
      ]_vars

\* the 9 byte request for uid 2 is on the bus in a frame of length 13
C16_Witness ==
    /\ bus # NoXfer
    /\ bus.id # 0
    /\ bus.status = RED_STACK_SLAVE_STATUS_AVAILABLE
    /\ bus.tx[2] = 13
    /\ FramePayload(bus.tx) = SubSeq(RequestUid2, 1, 9)
    /\ DataSend(ret)

\* what the claim asks of a received frame: the transfer returned 84 bytes,
\* preamble 0xAA, length byte from 4 + sizeof(PacketHeader) to 84, and the
\* checksum byte is the Pearson hash of the length - 1 bytes before it
IsAcceptable(b) ==
    /\ b.length_send = RED_STACK_SPI_PACKET_SIZE
    /\ b.rx[1] = RED_STACK_SPI_PREAMBLE_VALUE
    /\ b.rx[2] >= RED_STACK_SPI_PACKET_EMPTY_SIZE + SizeofPacketHeader
    /\ b.rx[2] <= RED_STACK_SPI_PACKET_SIZE
    /\ b.rx[b.rx[2]] = red_stack_spi_calculate_pearson_hash(b.rx, b.rx[2] - 1)

\* C17: an exchange gives DATA_RECEIVED (a response staged in polling, an
\* enumerate response used in discovery) only if the received frame is
\* acceptable; after any other exchange nothing is staged and the header
\* length of packet_recv is 0.
C17_OnlyValidFramesAccepted ==
    [][ /\ PollingExchange =>
              /\ DataReceived(ret') => IsAcceptable(bus')
              /\ received' # received =>
                    /\ IsAcceptable(bus')
                    /\ received' = Append(received, packet_from_spi')
                    /\ SubSeq(packet_from_spi', 1, Len(FramePayload(bus'.rx)))
                          = FramePayload(bus'.rx)
              /\ ~IsAcceptable(bus') =>
                    /\ ~DataReceived(ret')
                    /\ header_length(packet_from_spi') = 0
                    /\ received' = received
                    /\ staged' = staged
                    /\ spi_pc' \notin { "notify", "acquire" }
        /\ (SendAttempt \/ RecvAttempt) =>
              /\ spi_pc' = "rt_uids" => IsAcceptable(bus')
              /\ ~IsAcceptable(bus') => header_length(packet') = 0
      ]_vars

\* a poll was answered by a frame with a wrong checksum: READ is ERROR and
\* nothing was staged
C17_Witness ==
    /\ spi_pc = "loop"
    /\ bus # NoXfer
    /\ bus.length_send = RED_STACK_SPI_PACKET_SIZE
    /\ bus.rx[1] = RED_STACK_SPI_PREAMBLE_VALUE
    /\ bus.rx[2] = 13
    /\ ~IsAcceptable(bus)
    /\ ReadField(ret) = RED_STACK_TRANSCEIVE_RESULT_READ_ERROR
    /\ header_length(packet_from_spi) = 0
    /\ ~staged

\* the polling thread waits for something that only another thread can give:
\* a permit of the hand-off semaphore, or the queue mutex held by the event
\* thread
SpiThreadBlocked ==
    \/ spi_pc = "acquire" /\ semaphore = 0
    \/ spi_pc \in { "peek_lock", "pop_lock" } /\ mutex = "event"

\* C18: after red_stack_exit has cleared the running flag the polling thread
\* finishes its tick, sees the flag at the top of the next one and exits, so
\* that thread_join returns; hence while red_stack_exit waits in thread_join
\* (where the event thread releases nothing) the polling thread is never
\* blocked, also not when it waits for the hand-off permit, and it leaves at
\* the top of the tick.
C18_ShutdownCompletes ==
    /\ ev_pc = "exit_join" => ~SpiThreadBlocked
    /\ (ev_pc = "exit_join" /\ spi_pc = "loop") => _red_stack_spi_thread_running = 0

\* C19: once red_stack_exit has returned the polling thread has left
\* red_stack_spi_thread: it takes no step of discovery or of a tick and makes
\* no exchange on the closed file descriptor, also when red_stack_exit was
\* called during discovery.
C19_NoEngineCodeAfterExit ==
    [][ ev_pc = "exit_done" =>
            /\ spi_pc = "exited"
            /\ spi_pc' = spi_pc
            /\ bus' = bus ]_vars

\* C20: when a step of red_stack_init or of red_stack_init_spi fails,
\* red_stack_init returns -1, the polling thread has not been started, every
\* resource that was acquired before the failing step has been released, and
\* nothing that was never acquired has been released or removed.
C20_StartupRollback ==
    (init_pc = "done" /\ init_ret = -1) =>
        /\ spi_pc = "not_created"
        /\ acquired \subseteq released
        /\ released \subseteq acquired

\* discovery has returned without a slave
NoSlavesFound == slave_num = 0 /\ spi_pc \in { "thread_start", "exited" }

\* C21: when discovery ends with slave_num = 0 the polling thread returns
\* without a tick (no exchange, the running flag stays 0), the event thread
\* goes on, red_stack_dispatch_to_spi returns without taking the mutex or
\* enqueuing anything, and red_stack_exit closes the descriptor without
\* waiting in thread_join.
C21_NoSlaves ==
    [][ NoSlavesFound =>
            /\ spi_pc' = "exited" \/ spi_pc' = spi_pc
            /\ _red_stack_spi_thread_running = 0 /\ _red_stack_spi_thread_running' = 0
            /\ bus' = bus
            /\ slave_num' = 0
            /\ packet_to_spi_queue' = <<>> /\ pushed' = <<>> /\ ev_pushes' = <<>>
            /\ ev_pc' \in { "idle", "from_spi_dispatch", "from_spi_release",
                            "exit_close", "exit_done" }
            /\ ev_pc = "exit_close" => ev_pc' \in { "exit_close", "exit_done" } ]_vars

\* bricks are attached but none was found; the thread has returned, a request
\* was discarded and red_stack_exit has returned
C21_Witness ==
    /\ attached > 0
    /\ slave_num = 0
    /\ spi_pc = "exited"
    /\ ev_dropped # 0
    /\ ev_pc = "exit_done"

\* red_stack_spi_create_routing_table has not returned yet
DiscoveryRunning ==
    spi_pc \in { "rt_while", "rt_send", "rt_recv", "rt_uids", "rt_done" }

\* a step in which red_stack_dispatch_to_spi reads slave_num or looks a uid up
TableRead ==
    /\ ev_pc = "idle"
    /\ \/ ev_pc' \in { "broadcast_lock", "unicast_lock" }
       \/ ev_dropped' # ev_dropped
       \/ ev_request' # ev_request

\* C22: red_stack_dispatch_to_spi never reads slave_num, uids or uids_num
\* while red_stack_spi_create_routing_table is running, so no request for a
\* uid that discovery has registered is looked up in a table under
\* construction and discarded.
C22_TableNotReadDuringDiscovery ==
    [][ TableRead =>
            /\ ~DiscoveryRunning
            /\ ev_dropped' = 0 \/ ev_dropped' \notin Range(registered) ]_vars

\* the step is a call of red_stack_spi_transceive_message, in polling or in
\* discovery
TransceiveCall ==
    \/ spi_pc = "transceive" /\ spi_pc' # "transceive"
    \/ SendAttempt
    \/ RecvAttempt

\* the slave the call is for
Callee == IF spi_pc = "transceive" THEN slave ELSE stack_address

\* the call got as far as the transfer (in polling bus is cleared at the top
\* of the tick, in discovery no call ends before the transfer)
Transferred == spi_pc = "transceive" => bus' # NoXfer

\* what the claim calls an RX frame that parses as Ok: 84 bytes transferred,
\* preamble 0xAA, a length byte from 4 to 84, and the checksum byte is the
\* Pearson hash of the bytes before it
RxParsesOk(b) ==
    /\ b.length_send = RED_STACK_SPI_PACKET_SIZE
    /\ b.rx[1] = RED_STACK_SPI_PREAMBLE_VALUE
    /\ b.rx[2] \in RED_STACK_SPI_PACKET_EMPTY_SIZE..RED_STACK_SPI_PACKET_SIZE
    /\ b.rx[b.rx[2]] = red_stack_spi_calculate_pearson_hash(b.rx, b.rx[2] - 1)

\* C23: a call of the transceiver whose RX frame parses as Ok, an empty
\* response of length 4 included, sets the status of the slave to
\* AVAILABLE_BUSY if bit 0 of the info byte is set and to AVAILABLE if not;
\* every other call leaves the status of the slave as it was.
C23_StatusUpdate ==
    [][ TransceiveCall =>
            IF Transferred /\ RxParsesOk(bus')
            THEN slaves'[Callee].status =
                    IF BitAnd(FrameInfo(bus'.rx), RED_STACK_SPI_INFO_BUSY) # 0
                    THEN RED_STACK_SLAVE_STATUS_AVAILABLE_BUSY
                    ELSE RED_STACK_SLAVE_STATUS_AVAILABLE
            ELSE slaves'[Callee].status = slaves[Callee].status ]_vars

\* the step is an exchange whose ioctl did not return 84
TransportFailure ==
    /\ TransceiveCall
    /\ Transferred
    /\ bus'.length_send # RED_STACK_SPI_PACKET_SIZE

\* C24: when the SPI transfer does not return 84 bytes the result is exactly
\* SEND_ERROR | READ_ERROR, without DATA_SEND and DATA_RECEIVED also when a
\* request was in the frame; the head of the queue is not popped, nothing is
\* staged, the status of the slave is unchanged (in discovery the try
\* counts as failed), and the next tick peeks the same work item.
C24_TransportFailure ==
    [][ /\ TransportFailure =>
              /\ IF spi_pc = "transceive"
                 THEN ret' = BitOr(RED_STACK_TRANSCEIVE_RESULT_SEND_ERROR,
                                   RED_STACK_TRANSCEIVE_RESULT_READ_ERROR)
                      /\ ~DataSend(ret') /\ ~DataReceived(ret')
                      /\ spi_pc' = "loop"
                 ELSE spi_pc' = spi_pc /\ tries' = tries + 1
              /\ packet_to_spi_queue' = packet_to_spi_queue
              /\ sent' = sent /\ received' = received /\ staged' = staged
              /\ header_length(packet_from_spi') = 0
              /\ slaves' = slaves
        /\ UnsentItemIsRetried ]_vars

\* the transfer of a frame that carried the request at the head of the queue
\* to an AVAILABLE slave has failed, and the item is still the head
C24_Witness ==
    /\ spi_pc = "loop"
    /\ bus # NoXfer
    /\ bus.length_send # RED_STACK_SPI_PACKET_SIZE
    /\ bus.status = RED_STACK_SLAVE_STATUS_AVAILABLE
    /\ bus.tx[2] > RED_STACK_SPI_PACKET_EMPTY_SIZE
    /\ ret = 9
    /\ packet_to_spi # NULL
    /\ Head(packet_to_spi_queue) = packet_to_spi

\* the polling loop is running a tick
InTick == spi_pc \in { "peek_lock", "peek", "transceive", "pop_lock", "pop", "notify",
                       "acquire" }

\* C25: a tick with a non-empty queue takes the slave and the packet of the
\* head item and leaves the cursor alone; a tick with an empty queue takes
\* slaves[cursor] without a request and moves the cursor on by one modulo
\* slave_num; the exchange goes to the slave chosen.  The cursor stays in
\* [0, slave_num) and only the peek moves it, and a tick that follows a tick
\* without request polls the next slave in cyclic order, so slave_num such
\* ticks in a row poll every present slave once.
C25_PerTickTargeting ==
    [][ /\ (InTick \/ spi_pc = "loop") =>
              /\ stack_address_cycle \in 0..(slave_num - 1)
              /\ stack_address_cycle' \in 0..(slave_num - 1)
        /\ (spi_pc = "peek" /\ spi_pc' # "peek") =>
              IF packet_to_spi_queue = <<>>
              THEN /\ request' = NULL
                   /\ slave' = stack_address_cycle
                   /\ stack_address_cycle' = (stack_address_cycle + 1) % slave_num
              ELSE /\ request' = Head(packet_to_spi_queue).packet
                   /\ slave' = Head(packet_to_spi_queue).slave
                   /\ stack_address_cycle' = stack_address_cycle
        /\ spi_pc # "peek" => stack_address_cycle' = stack_address_cycle
        /\ (spi_pc = "transceive" /\ spi_pc' # "transceive") =>
              /\ slave' = slave /\ request' = request
              /\ bus' # NoXfer => bus'.slave = slave
              /\ request = NULL =>
                    bus' # NoXfer /\ bus'.tx[2] = RED_STACK_SPI_PACKET_EMPTY_SIZE
        /\ (spi_pc = "loop" /\ spi_pc' = "peek_lock") =>
              /\ slave' = stack_address_cycle
              /\ (ret # 0 /\ request = NULL) => slave' = (slave + 1) % slave_num
      ]_vars

\* with two slaves: a request has been sent on an earlier tick; the last
\* tick polled slave 0 without request and moved the cursor to 1, and an item
\* was pushed since
C25_Witness ==
    /\ slave_num = 2
    /\ Len(sent) >= 1
    /\ spi_pc = "loop"
    /\ request = NULL
    /\ bus # NoXfer
    /\ bus.slave = 0
    /\ stack_address_cycle = 1
    /\ packet_to_spi_queue # <<>>

\* C26: once red_stack_spi_create_routing_table has returned, no step changes
\* slave_num, the uids or uids_num of a slave, or whether a slave is ABSENT;
\* only AVAILABLE and AVAILABLE_BUSY of present slaves change into each other.
C26_TableFrozen ==
    [][ ~DiscoveryRunning =>
            /\ slave_num' = slave_num
            /\ \A i \in Slots :
                  /\ slaves'[i].uids = slaves[i].uids
                  /\ slaves'[i].uids_num = slaves[i].uids_num
                  /\ (slaves'[i].status = RED_STACK_SLAVE_STATUS_ABSENT)
                        = (slaves[i].status = RED_STACK_SLAVE_STATUS_ABSENT)
                  /\ i >= slave_num => slaves'[i] = slaves[i] ]_vars

\* in polling, after a request was enqueued and a packet was handed over, with
\* two bricks attached of which one was found: slave 0 has gone from AVAILABLE to AVAILABLE_BUSY
\* and slot 1 is ABSENT
C26_Witness ==
    /\ spi_pc = "loop"
    /\ slave_num = 1
    /\ attached = 2
    /\ bus # NoXfer
    /\ bus.status = RED_STACK_SLAVE_STATUS_AVAILABLE
    /\ slaves[0].status = RED_STACK_SLAVE_STATUS_AVAILABLE_BUSY
    /\ slaves[0].uids_num = 1
    /\ slaves[1].status = RED_STACK_SLAVE_STATUS_ABSENT
    /\ Len(pushed) >= 1
    /\ Len(delivered) >= 1

\* the polling thread is between mutex_lock and mutex_unlock
SpiInQueue == spi_pc \in { "peek", "pop" }

\* the event thread is between mutex_lock and mutex_unlock
EventInQueue == ev_pc \in { "broadcast_push", "unicast_push" }

\* C27: the event thread (queue_push, each push of a broadcast on its own)
\* and the polling thread (queue_peek, queue_pop) are never inside a queue
\* operation at the same time; the mutex is held exactly while a thread is at
\* its one queue operation, which is followed by the unlock, so no exchange,
\* sleep or semaphore wait is inside a critical section; the queue changes
\* only there, by one push at the tail or one pop at the head.
C27_QueueMutualExclusion ==
    [][ /\ ~(SpiInQueue /\ EventInQueue)
        /\ ~(SpiInQueue' /\ EventInQueue')
        /\ (mutex = "spi") = SpiInQueue
        /\ (mutex = "event") = EventInQueue
        /\ (SpiInQueue /\ spi_pc' # spi_pc) =>
              /\ mutex' = "none" /\ ~SpiInQueue'
              /\ bus' = bus /\ semaphore' = semaphore
              /\ IF spi_pc = "pop"
                 THEN packet_to_spi_queue' = Tail(packet_to_spi_queue)
                 ELSE packet_to_spi_queue' = packet_to_spi_queue
        /\ (EventInQueue /\ ev_pc' # ev_pc) =>
              /\ mutex' = "none" /\ ~EventInQueue'
              /\ Len(packet_to_spi_queue') = Len(packet_to_spi_queue) + 1
              /\ IsPrefix(packet_to_spi_queue, packet_to_spi_queue')
        /\ packet_to_spi_queue' # packet_to_spi_queue =>
              \/ SpiInQueue /\ spi_pc' # spi_pc
              \/ EventInQueue /\ ev_pc' # ev_pc
      ]_vars

\* the polling thread is at the pop while the event thread, after the first
\* push of a broadcast, waits for the mutex for the second
C27_Witness ==
    /\ spi_pc = "pop"
    /\ mutex = "spi"
    /\ ev_pc = "broadcast_lock"
    /\ ev_is = 1

\* the push numbers of the items in the queue, head first
QueuedIds == [k \in 1..Len(packet_to_spi_queue) |-> packet_to_spi_queue[k].id]

\* how often push number id occurs in a sequence of push numbers
Occurrences(ids, id) == Cardinality({ k \in 1..Len(ids) : ids[k] = id })

\* the item peeked on this tick was sent and its pop is still to come
PopPending == spi_pc \in { "pop_lock", "pop" }

\* Pop takes the item that was peeked and sent on this tick, and the thread
\* goes to the pop exactly when the result has DATA_SEND, which needs a request
PopsWhatWasSent ==
    /\ (spi_pc = "transceive" /\ spi_pc' # "transceive") =>
          /\ (spi_pc' = "pop_lock") = DataSend(ret')
          /\ DataSend(ret') =>
                /\ request # NULL /\ packet_to_spi # NULL
                /\ sent' = Append(sent, packet_to_spi.id)
                /\ Head(packet_to_spi_queue') = packet_to_spi
    /\ (spi_pc = "pop" /\ spi_pc' # "pop") =>
          /\ DataSend(ret)
          /\ Head(packet_to_spi_queue) = packet_to_spi
          /\ packet_to_spi.id = sent[Len(sent)]
          /\ packet_to_spi_queue' = Tail(packet_to_spi_queue)

\* every item pushed so far is in the queue or was sent, never both (but for
\* the head while its pop is pending), and never twice
SentOnceOrQueued ==
    \A id \in 1..Len(pushed) :
        /\ Occurrences(sent, id) <= 1
        /\ Occurrences(QueuedIds, id) <= 1
        /\ Occurrences(sent, id) + Occurrences(QueuedIds, id)
              = IF PopPending /\ packet_to_spi.id = id THEN 2 ELSE 1

\* a tick that offers the head item to a slave that is AVAILABLE sends it
\* with DATA_SEND unless the transfer fails
OfferedItemIsSent ==
    (spi_pc = "transceive" /\ spi_pc' # "transceive" /\ request # NULL
     /\ slaves[slave].status = RED_STACK_SLAVE_STATUS_AVAILABLE)
        => /\ bus' # NoXfer
           /\ bus'.length_send = RED_STACK_SPI_PACKET_SIZE => DataSend(ret')

\* C28: queue_pop removes exactly the item that was peeked and sent on the
\* same tick, also when items are pushed between peek and pop; the queue is
\* popped only on ticks whose request came from the queue and whose result
\* has DATA_SEND; so every work item is sent with DATA_SEND once and not
\* twice, is not removed unsent, and is sent when it is offered to its
\* AVAILABLE slave and the transfer works.
C28_PeekThenPop ==
    [][ /\ PopsWhatWasSent
        /\ SentOnceOrQueued
        /\ SentOnceOrQueued'
        /\ OfferedItemIsSent ]_vars

\* the exchange of this step was with a slave marked AVAILABLE_BUSY and was
\* answered with a valid frame whose busy bit is clear
BusySlaveAnswersReady ==
    /\ PollingExchange
    /\ bus'.status = RED_STACK_SLAVE_STATUS_AVAILABLE_BUSY
    /\ RxParsesOk(bus')
    /\ BitAnd(FrameInfo(bus'.rx), RED_STACK_SPI_INFO_BUSY) = 0

\* C29: a slave marked AVAILABLE_BUSY that answers its polls with valid
\* frames whose busy bit is clear, of length 4 or with payload, gets back to
\* AVAILABLE, and the head item for it is then sent and popped; in steps:
\* such an answer makes the slave AVAILABLE, the next tick offers the same
\* head item again, and an item offered to its AVAILABLE slave is sent with
\* DATA_SEND when the transfer works and is popped on that tick.
C29_BusyRecovery ==
    [][ /\ BusySlaveAnswersReady =>
              slaves'[bus'.slave].status = RED_STACK_SLAVE_STATUS_AVAILABLE
        /\ UnsentItemIsRetried
        /\ OfferedItemIsSent
        /\ (spi_pc = "transceive" /\ DataSend(ret')) => spi_pc' = "pop_lock" ]_vars

\* the last exchange of the current tick was with slave s
ExchangedWith(s) == ret # 0 /\ bus # NoXfer /\ bus.slave = s

\* C30: in every behaviour in which the polling loop keeps coming to the end
\* of a tick (the engine runs, the hand-off permit is released each time),
\* every present slave is exchanged with again and again, whatever is in the
\* queue.
C30_PollingFairness ==
    \A s \in 0..(MaxPresent - 1) :
        ([]<>(spi_pc = "loop")) => []<>(s >= slave_num \/ ExchangedWith(s))

\* a permit of the hand-off semaphore is there or on its way: released
\* already, or the notification byte is in the pipe, or
\* red_stack_dispatch_from_spi has read the byte and is about to release
HandOffPermitPossible ==
    \/ semaphore > 0
    \/ pipe > 0
    \/ ev_pc \in { "from_spi_dispatch", "from_spi_release" }

\* C31: a failure of the hand-off notification does not wedge the engine:
\* also after pipe_write has failed in the polling thread or pipe_read has
\* failed in red_stack_dispatch_from_spi, a polling thread that waits in
\* semaphore_acquire can still get its permit, so that later ticks run.
C31_HandOffFailureNoWedge ==
    spi_pc = "acquire" => HandOffPermitPossible

\* the EEPROM at position i named RS485 or Ethernet and the read of the
\* type-specific configuration returned an error
ConfigUnreadable(i) == eeprom[i].config = "failed"

\* the EEPROM at position i named a type that is not supported
TypeUnsupported(i) ==
    eeprom[i].type \in { EXTENSION_TYPE_NONE, EXTENSION_TYPE_CHIBI, EXTENSION_TYPE_WIFI }

\* position i has seen no type-specific pin plan, no init function and no
\* exit function, and no type is recorded for it
NeverInitialised(i) ==
    /\ \A k \in 1..Len(pins[i]) : pins[i][k] = "startup"
    /\ ext_inits[i] = NoType
    /\ _red_extension_type[i] = EXTENSION_TYPE_NONE
    /\ ext_exits[i] = NoType

\* position j was detected with a supported type and a readable
\* configuration, and red_extension_init has configured its pins and called
\* its init function
DetectedAndInitialised(j) ==
    /\ base_config[j].type = eeprom[j].type
    /\ pins[j] = << "startup", PinPlan(eeprom[j].type) >>
    /\ ext_inits[j] = eeprom[j].type

\* C32: an extension whose RS485 or Ethernet configuration could not be read
\* is ignored (pins not configured, init function not called, recorded type
\* NONE, no exit function called by red_extension_exit), an extension of type
\* none, Chibi or WiFi is never initialised either, and in both cases the
\* other position, when it holds a supported extension with a readable
\* configuration, is detected and initialised once red_extension_init has
\* returned 0.
C32_ExtensionBootstrap ==
    \A i \in Positions :
        (ConfigUnreadable(i) \/ TypeUnsupported(i)) =>
            /\ NeverInitialised(i)
            /\ \A j \in Positions \ { i } :
                  (/\ ext_pc \in { "ext_returned", "ext_exit", "ext_exited" }
                   /\ ext_ret = 0
                   /\ eeprom[j].config = "ok") => DetectedAndInitialised(j)

====
